---- MODULE Spec2Model ----
(***************************************************************************)
(* Job orchestration pipeline of the audio-fingerprinting backend:         *)
(* router.post('/extract') -> processVideo -> downloadVideo (segments,     *)
(* with fallback to full) -> identifyMusicTracks -> compiled result.       *)
(* One action per handler run between two awaits of the Node event loop.   *)
(* The planner, the deduplication loop, the metadata cache, the download   *)
(* route and the cleanup sweep are also exercised on their own.            *)
(***************************************************************************)
EXTENDS Integers, Sequences, FiniteSets, TLC

(* ----------------------------- bounds ---------------------------------- *)
\* task ids handed out by uuidv4(); two jobs can run at the same time
TaskIds == {"t1", "t2"}
\* largest number of files splitAudioSegments may produce on the full path
\* of the jobs whose every input is explored
MaxSplit == 2
\* largest value of the environment setting MAX_CONCURRENT_IDENTIFICATIONS
MaxCap == 2
\* every duration up to MaxDuration is planned, and a few longer ones
MaxDuration == 24
\* longest list of recognised tracks handed to the deduplication loop
MaxTracks == 3
\* longest name requested from GET /api/download, in characters
MaxName == 4

(* --------------------- configuration (process.env) --------------------- *)
\* videoDownloader.js:167  parseInt(process.env.SEGMENT_DURATION) || 15
SEGMENT_DURATION == 15
\* videoDownloader.js:168  parseInt(process.env.NUM_SEGMENTS) || 6
NUM_SEGMENTS == 6
\* musicIdentifier.js:17  parseInt(process.env.SEGMENT_DURATION) || 60
ID_SEGMENT_DURATION == 60
\* videoDownloader.js:172  CACHE_DURATION, in milliseconds
CACHE_DURATION == 3600000
\* fileCleanup.js:11  parseInt(process.env.MAX_FILE_AGE) || 86400000
MAX_FILE_AGE == 86400000
\* videoDownloader.js:163  parseInt(process.env.MAX_VIDEO_DURATION) || 3600
MAX_DURATION == 3600
\* values of SEGMENT_DURATION the planner is exercised with
WindowLengths == {4, 5, 7, 15}
\* durations the planner is exercised with; the arithmetic of the planner
\* on them is exact in IEEE doubles for up to 6 windows
PlannerDurations == (0..MaxDuration) \cup {60, 61, 100, 600}
\* durations (seconds) getVideoInfo may resolve for an asset; 0 is what
\* `metadata?.format?.duration || 0` yields when ffprobe reports none
Durations == {0, 10, 20}
\* durations ffprobe reports for the audio of a full download: none, and
\* five seconds short of 1..MaxSplit whole windows
AudioDurations == {0} \cup {n * SEGMENT_DURATION - 5 : n \in 1..MaxSplit}
\* the asset of the fallback scenario, in seconds
FallbackDuration == 600
\* percentages yt-dlp prints while it downloads the full asset
YtDlpPercents == {0, 40, 100, 150}
\* music entries the recognition service may answer with: title, artist
Catalog == << [title |-> <<"X">>, artist |-> <<"Y">>],
              [title |-> <<"x">>, artist |-> <<"y">>] >>
\* ways one recognition call can end (ACRCloud status codes, transport)
OutcomeKinds == {"match", "nomatch", "timeout", "auth", "malformed", "nomusic"}

Null == [null |-> TRUE]
\* what an async call yields when it rejects instead of resolving
Thrown == [thrown |-> TRUE]

(* ----------------------------- arithmetic ------------------------------ *)
Min(a, b) == IF a <= b THEN a ELSE b
Max(a, b) == IF a >= b THEN a ELSE b
\* Math.round(a / b) for a >= 0, b > 0 (halves round up)
Round(a, b) == (2 * a + b) \div (2 * b)

Range(s) == {s[k] : k \in 1..Len(s)}

(* ------------------------- SegmentPlanner ------------------------------ *)
\* push {start,end} unless its key `${start}-${end}` was added before
AddSegment(segments, start, end) ==
  IF <<start, end>> \in Range(segments) THEN segments
  ELSE Append(segments, <<start, end>>)

RECURSIVE DenseLoopAnyLength(_, _, _, _, _)
\* DenseLoop without the `end - start >= 5` test
DenseLoopAnyLength(t, segments, duration, W, N) ==
  IF t >= Min(60, duration) THEN <<segments, FALSE>>
  ELSE LET s2 == AddSegment(segments, t, Min(t + W, duration))
       IN IF Len(s2) >= N THEN <<s2, TRUE>>
          ELSE DenseLoopAnyLength(t + W, s2, duration, W, N)

RECURSIVE DenseLoop(_, _, _, _, _)
\* the for-loop over the first 60 seconds; result <<segments, returned>>
DenseLoop(t, segments, duration, W, N) ==
  IF t >= Min(60, duration) THEN <<segments, FALSE>>
  ELSE LET start == t
           end == Min(t + W, duration)
       IN IF end - start >= 5
          THEN LET s2 == AddSegment(segments, start, end)
               IN IF Len(s2) >= N THEN <<s2, TRUE>>
                  ELSE DenseLoop(t + W, s2, duration, W, N)
          ELSE DenseLoop(t + W, segments, duration, W, N)

RECURSIVE SpreadLoopAllPoints(_, _, _, _, _)
\* SpreadLoop without `if (segments.length >= NUM_SEGMENTS) break`
SpreadLoopAllPoints(fracs, segments, duration, W, N) ==
  IF fracs = <<>> THEN segments
  ELSE LET pos == (duration * Head(fracs)) \div 100
           start == Max(0, pos - (W \div 2))
           end == Min(start + W, duration)
           s2 == IF end - start >= 5 THEN AddSegment(segments, start, end)
                 ELSE segments
       IN SpreadLoopAllPoints(Tail(fracs), s2, duration, W, N)

RECURSIVE SpreadLoop(_, _, _, _, _)
\* the loop over spreadPoints [0.25, 0.5, 0.85], given in hundredths
SpreadLoop(fracs, segments, duration, W, N) ==
  IF fracs = <<>> \/ Len(segments) >= N THEN segments
  ELSE LET pos == (duration * Head(fracs)) \div 100
           start == Max(0, pos - (W \div 2))
           end == Min(start + W, duration)
           s2 == IF end - start >= 5 THEN AddSegment(segments, start, end)
                 ELSE segments
       IN SpreadLoop(Tail(fracs), s2, duration, W, N)

RECURSIVE EvenLoopOneMore(_, _, _, _, _)
\* EvenLoop with `segments.length <= NUM_SEGMENTS` as its loop condition
EvenLoopOneMore(i, segments, duration, W, N) ==
  IF ~(Len(segments) <= N /\ i < N * 2) THEN segments
  ELSE LET pos == (duration * i) \div N
           start == Max(0, pos)
           end == Min(start + W, duration)
           s2 == IF end - start >= 5 THEN AddSegment(segments, start, end)
                 ELSE segments
       IN EvenLoopOneMore(i + 1, s2, duration, W, N)

RECURSIVE EvenLoop(_, _, _, _, _)
\* the while-loop that evenly spaces the remaining segments
EvenLoop(i, segments, duration, W, N) ==
  IF ~(Len(segments) < N /\ i < N * 2) THEN segments
  ELSE LET pos == (duration * i) \div N
           start == Max(0, pos)
           end == Min(start + W, duration)
           s2 == IF end - start >= 5 THEN AddSegment(segments, start, end)
                 ELSE segments
       IN EvenLoop(i + 1, s2, duration, W, N)

PlanSegments(duration, W, N) ==
  IF duration <= W THEN << <<0, duration>> >>
  ELSE LET dense == DenseLoop(0, <<>>, duration, W, N)
       IN IF dense[2] THEN dense[1]
          ELSE EvenLoop(0, SpreadLoop(<<25, 50, 85>>, dense[1], duration, W, N),
                        duration, W, N)

calculateSegmentPositions(duration) ==
  PlanSegments(duration, SEGMENT_DURATION, NUM_SEGMENTS)

(* ------------------------------- state --------------------------------- *)
VARIABLES
  config,        \* process.env: ACRCloud credentials present, recognition cap
  jobs,          \* the router's job Map: taskId -> job record
  pc,            \* the await at which each job's processVideo is suspended
  useFullAudio,  \* processVideo's local flag
  videoFile,     \* processVideo's local videoFile holds a downloaded video
  plan,          \* downloadAudioSegments: segmentPositions
  segState,      \* downloadAudioSegments: state of each download promise
  completed,     \* downloadAudioSegments: the counter `completed`
  ytLast,        \* last percentage printed by the running yt-dlp download
  segmentFiles,  \* processVideo's local list of files given to recognition
  idx,           \* identifyMusicTracks: loop variable i
  inflight,      \* identifyMusicTracks: calls of the batch not yet returned
  batchResults,  \* identifyMusicTracks: results of the returned calls
  allResults,    \* identifyMusicTracks: allResults
  identified,    \* value identifyMusicTracks resolved with
  calls,         \* number of downloadVideo invocations per mode, per job
  dispatched,    \* files handed to identifyWithACRCloud so far, per job
  reported,      \* percentages downloadAudioSegments passed to its callback
  progressWrites,\* values the last step assigned to job.progress, in order
  response,      \* HTTP response sent by the last step (Null if none)
  planner,       \* calls of calculateSegmentPositions made in this process
  dedup,         \* a run of the deduplication loop of identifyMusicTracks
  cache,         \* videoDownloader's urlCache, the clock and getVideoInfo calls
  download,      \* the last request to GET /api/download and its answer
  reaper,        \* the downloads directory, the clock and cleanupOldFiles
  cleanup,       \* the artifacts each job holds and its cleanupFiles calls
  recognition    \* one call of identifyWithACRCloud on a segment file

vars == <<config, jobs, pc, useFullAudio, videoFile, plan, segState, completed, ytLast,
          segmentFiles, idx, inflight, batchResults, allResults, identified,
          calls, dispatched, reported, progressWrites, response,
          planner, dedup, cache, download, reaper, cleanup, recognition>>

\* the functions exercised on their own, outside a job
serviceVars == <<cache, download, reaper, cleanup, recognition>>
pureVars == <<planner, dedup, serviceVars>>
\* no call of calculateSegmentPositions was made on its own
PlannerIdle == [W |-> SEGMENT_DURATION, N |-> NUM_SEGMENTS,
                first |-> Null, last |-> Null, interleaved |-> FALSE]
\* no run of the deduplication loop was made on its own
DedupIdle == [phase |-> "idle", identifiedTracks |-> <<>>, position |-> 0,
              uniqueTracks |-> <<>>, returned |-> <<>>, again |-> <<>>]

\* no getVideoInfo call was made on its own: urlCache is empty
CacheIdle == [urlCache |-> <<>>, now |-> 0, pending |-> {},
              last |-> [op |-> "none"]]
\* no download is requested
DownloadIdle == [phase |-> "idle", filename |-> <<>>, code |-> 0, served |-> <<>>]
\* no sweep was started and the downloads directory is empty
SweepIdle == [phase |-> "idle", now |-> 0, file |-> "", stats |-> Null,
              todo |-> {}, removed |-> {}, kept |-> {}]
ReaperIdle == [now |-> 0, files |-> <<>>, sweep |-> SweepIdle]
\* a job that was not submitted holds no artifact
ArtifactJobIdle == [status |-> "none", videoUrl |-> "", mode |-> "segments",
                    files |-> {}, timer |-> FALSE]
\* no job holds an artifact and no cleanupFiles call is running
CleanupIdle == [job |-> [t \in TaskIds |-> ArtifactJobIdle], running |-> {}]
\* identifyWithACRCloud was not called on its own
RecognitionIdle == [phase |-> "idle", credentials |-> FALSE, exists |-> FALSE,
                    size |-> 0, segmentIndex |-> 0, posts |-> 0, value |-> Null]
ServicesIdle ==
  /\ cache = CacheIdle
  /\ download = DownloadIdle
  /\ reaper = ReaperIdle
  /\ cleanup = CleanupIdle
  /\ recognition = RecognitionIdle

\* URLs a client may submit: a direct media file, or a page yt-dlp resolves
Urls == {"https://cdn.example/a.mp4", "https://video.example/watch"}
isDirectVideoFile(url) == url = "https://cdn.example/a.mp4"

\* values the videoUrl of a request body may have: absent, a number, or a
\* string that is empty, not a URL, or a URL
Payloads ==
  {[type |-> "undefined"]}
    \cup {[type |-> "number", number |-> n] : n \in {0, 42}}
    \cup {[type |-> "string", string |-> s] : s \in Urls \cup {"", "not a url"}}

\* `!videoUrl`: undefined, 0 and the empty string are falsy
Falsy(videoUrl) ==
  \/ videoUrl.type = "undefined"
  \/ videoUrl.type = "number" /\ videoUrl.number = 0
  \/ videoUrl.type = "string" /\ videoUrl.string = ""

\* `!videoUrl || typeof videoUrl !== 'string'`
NotAString(videoUrl) == Falsy(videoUrl) \/ videoUrl.type # "string"

\* `new URL(videoUrl)` throws: the string has no scheme
URLThrows(string) == string \notin Urls

\* the state of the router and of the services when the process has started
InitPipeline ==
  /\ config \in [credentials : BOOLEAN, maxConcurrent : 1..MaxCap]
  /\ jobs = <<>>
  /\ pc = [t \in TaskIds |-> "idle"]
  /\ useFullAudio = [t \in TaskIds |-> FALSE]
  /\ videoFile = [t \in TaskIds |-> FALSE]
  /\ plan = [t \in TaskIds |-> <<>>]
  /\ segState = [t \in TaskIds |-> <<>>]
  /\ completed = [t \in TaskIds |-> 0]
  /\ ytLast = [t \in TaskIds |-> 0]
  /\ segmentFiles = [t \in TaskIds |-> <<>>]
  /\ idx = [t \in TaskIds |-> 0]
  /\ inflight = [t \in TaskIds |-> {}]
  /\ batchResults = [t \in TaskIds |-> <<>>]
  /\ allResults = [t \in TaskIds |-> <<>>]
  /\ identified = [t \in TaskIds |-> <<>>]
  /\ calls = [t \in TaskIds |-> [segments |-> 0, full |-> 0]]
  /\ dispatched = [t \in TaskIds |-> <<>>]
  /\ reported = [t \in TaskIds |-> <<>>]
  /\ progressWrites = [t \in TaskIds |-> <<>>]
  /\ response = Null

Init ==
  /\ InitPipeline
  /\ planner = PlannerIdle
  /\ dedup = DedupIdle
  /\ ServicesIdle

(* ------------------------ processVideo helpers -------------------------- *)
\* downloadProgressCallback of processVideo
downloadProgressCallback(job, progress) ==
  IF progress >= 0
  THEN [job EXCEPT !.downloadProgress = progress,
                   !.progress = Round(progress, 2)]
  ELSE job

\* CatchError as a catch block that forgets to record the message
CatchErrorNoMessage(job, message) == [job EXCEPT !.status = "failed"]

\* the catch block of processVideo
CatchError(job, message) ==
  [job EXCEPT !.status = "failed", !.error = [message |-> message]]

\* downloadAudioSegments: percentage passed to its progressCallback
SegmentProgress(done, totalSegments) == Round(done * 100, totalSegments)

\* downloadVideoSegments: map segment progress (0-100) to overall (20-100)
OverallProgress(segProgress) == 20 + Round(segProgress * 8, 10)

\* successfulSegments as a fetcher that awaits the downloads without the
\* per-promise .catch: one rejection discards every sibling's file
successfulSegmentsAllOrNothing(states, positions) ==
  IF \E k \in 1..Len(states) : states[k] = "failed" THEN <<>>
  ELSE [k \in 1..Len(states) |->
          [origin |-> "segment", segmentIndex |-> k - 1,
           startTime |-> positions[k][1], endTime |-> positions[k][2]]]

\* downloadAudioSegments: results.filter(Boolean), as {file, startTime,
\* endTime, segmentIndex} of the promises that resolved with a file
RECURSIVE SuccessfulFrom(_, _, _)
SuccessfulFrom(k, states, positions) ==
  IF k > Len(states) THEN <<>>
  ELSE (IF states[k] = "ok"
        THEN << [origin |-> "segment", segmentIndex |-> k - 1,
                 startTime |-> positions[k][1], endTime |-> positions[k][2]] >>
        ELSE <<>>) \o SuccessfulFrom(k + 1, states, positions)

successfulSegments(states, positions) == SuccessfulFrom(1, states, positions)

\* downloadAudioSegments: the condition of `throw new Error('All segments
\* failed to download')`
AllSegmentsFailed(successful) == Len(successful) = 0

\* segmentCount with the chunk length of the recognition service
segmentCountRecognitionLength(duration) ==
  (duration + ID_SEGMENT_DURATION - 1) \div ID_SEGMENT_DURATION

\* splitAudioSegments: Math.ceil(duration / SEGMENT_DURATION), of the
\* duration ffprobe reports for the full audio
segmentCount(duration) == (duration + SEGMENT_DURATION - 1) \div SEGMENT_DURATION

\* splitAudioSegments: the list of n segment files cut from the full audio
RECURSIVE SplitFiles(_)
SplitFiles(n) ==
  IF n = 0 THEN <<>>
  ELSE Append(SplitFiles(n - 1),
              [origin |-> "split", segmentIndex |-> n - 1,
               startTime |-> (n - 1) * SEGMENT_DURATION,
               endTime |-> n * SEGMENT_DURATION])

\* downloadModeTag as a result that always reports the fast mode
downloadModeTagAlwaysSegments(full) == "segments"

\* processVideo: audioMetadata.downloadMode
downloadModeTag(full) == IF full THEN "full" ELSE "segments"

\* processVideo: processingInfo.downloadMode
processingDownloadModeTag(full) ==
  IF full THEN "full" ELSE "segments (10-20x faster!)"

(* ---------------------- RecognitionDispatcher --------------------------- *)
\* String.prototype.toLowerCase on the characters used in Catalog
toLowerCase(str) ==
  [k \in 1..Len(str) |-> CASE str[k] = "X" -> "x"
                           [] str[k] = "Y" -> "y"
                           [] OTHER -> str[k]]

\* `${track.title}-${track.artist}`.toLowerCase()
trackKey(track) == toLowerCase(track.title \o <<"-">> \o track.artist)

\* identifyWithACRCloud without the try/catch around the request: a
\* timeout rejects the call
identifyWithACRCloudRejecting(outcome, segmentIndex) ==
  IF outcome.kind = "match"
  THEN [title |-> Catalog[outcome.music].title,
        artist |-> Catalog[outcome.music].artist,
        start |-> segmentIndex * ID_SEGMENT_DURATION,
        end |-> (segmentIndex + 1) * ID_SEGMENT_DURATION]
  ELSE IF outcome.kind = "timeout" THEN Thrown ELSE Null

\* identifyWithACRCloud: what one call resolves with, for a given way the
\* recognition request ended; every failure is swallowed to null
identifyWithACRCloud(outcome, segmentIndex) ==
  IF outcome.kind = "match"
  THEN [title |-> Catalog[outcome.music].title,
        artist |-> Catalog[outcome.music].artist,
        start |-> segmentIndex * ID_SEGMENT_DURATION,
        end |-> (segmentIndex + 1) * ID_SEGMENT_DURATION]
  ELSE Null

Outcomes ==
  {[kind |-> "match", music |-> m] : m \in 1..Len(Catalog)}
    \cup {[kind |-> k, music |-> 0] : k \in OutcomeKinds \ {"match"}}

\* maxConcurrent as "process ALL segments in parallel at once"
maxConcurrentAll(cap, totalSegments) == totalSegments

\* Math.min(MAX_CONCURRENT_IDENTIFICATIONS, totalSegments)
maxConcurrent(cap, totalSegments) == Min(cap, totalSegments)

\* BatchPositions as a slice that takes everything after i
BatchPositionsRest(i, mc, totalSegments) == (i + 1)..totalSegments

\* segmentFiles.slice(i, i + maxConcurrent), as 1-based positions
BatchPositions(i, mc, totalSegments) == (i + 1)..Min(i + mc, totalSegments)

\* MergeEnd without Math.max: the end of the latest occurrence is stored
MergeEndLatest(uniqueTracks, track) ==
  LET first == CHOOSE k \in 1..Len(uniqueTracks) :
                 /\ trackKey(uniqueTracks[k]) = trackKey(track)
                 /\ \A m \in 1..(k - 1) :
                      trackKey(uniqueTracks[m]) # trackKey(track)
  IN [uniqueTracks EXCEPT ![first].end = track.end]

\* merge the end of the entry that has the key of `track`
MergeEnd(uniqueTracks, track) ==
  LET first == CHOOSE k \in 1..Len(uniqueTracks) :
                 /\ trackKey(uniqueTracks[k]) = trackKey(track)
                 /\ \A m \in 1..(k - 1) :
                      trackKey(uniqueTracks[m]) # trackKey(track)
  IN [uniqueTracks EXCEPT ![first].end = Max(uniqueTracks[first].end, track.end)]

RECURSIVE DedupLoopLatestWins(_, _, _)
\* DedupLoop whose else branch replaces the stored entry by the later
\* occurrence, keeping only the time range of the first
DedupLoopLatestWins(k, identifiedTracks, uniqueTracks) ==
  IF k > Len(identifiedTracks) THEN uniqueTracks
  ELSE LET track == identifiedTracks[k]
           seen == {trackKey(uniqueTracks[m]) : m \in 1..Len(uniqueTracks)}
           replaced == [m \in 1..Len(uniqueTracks) |->
                          IF trackKey(uniqueTracks[m]) = trackKey(track)
                          THEN [track EXCEPT
                                  !.start = uniqueTracks[m].start,
                                  !.end = Max(uniqueTracks[m].end, track.end)]
                          ELSE uniqueTracks[m]]
       IN IF trackKey(track) \notin seen
          THEN DedupLoopLatestWins(k + 1, identifiedTracks,
                                   Append(uniqueTracks, track))
          ELSE DedupLoopLatestWins(k + 1, identifiedTracks, replaced)

RECURSIVE DedupLoop(_, _, _)
\* the `for (const track of identifiedTracks)` loop
DedupLoop(k, identifiedTracks, uniqueTracks) ==
  IF k > Len(identifiedTracks) THEN uniqueTracks
  ELSE LET track == identifiedTracks[k]
           seen == {trackKey(uniqueTracks[m]) : m \in 1..Len(uniqueTracks)}
       IN IF trackKey(track) \notin seen
          THEN DedupLoop(k + 1, identifiedTracks, Append(uniqueTracks, track))
          ELSE DedupLoop(k + 1, identifiedTracks, MergeEnd(uniqueTracks, track))

\* removeDuplicates with a loop that starts at the second track
removeDuplicatesFromSecond(identifiedTracks) ==
  DedupLoop(2, identifiedTracks, <<>>)

\* identifyMusicTracks, from `const uniqueTracks = []` to its return
removeDuplicates(identifiedTracks) == DedupLoop(1, identifiedTracks, <<>>)

RECURSIVE BatchFiltered(_, _, _)
\* batchResults.filter(Boolean) over the batch positions from..to
BatchFiltered(from, to, results) ==
  IF from > to THEN <<>>
  ELSE (IF results[from] = Null THEN <<>> ELSE <<results[from]>>)
         \o BatchFiltered(from + 1, to, results)

\* progress written after the batch that ends at position `done`
batchProgress(done, totalSegments) ==
  Min(70 + Round(done * 20, totalSegments), 90)

RECURSIVE FilesAt(_, _, _)
FilesAt(from, to, files) ==
  IF from > to THEN <<>> ELSE <<files[from]>> \o FilesAt(from + 1, to, files)

(* ------------------------------ actions -------------------------------- *)
fetchVars == <<plan, segState, completed, reported>>
identVars == <<idx, inflight, batchResults, allResults, identified, dispatched>>

\* StoreJob with one progress value shared by every job of the store
StoreJobShared(t, job, writes) ==
  /\ jobs' = [u \in DOMAIN jobs |->
               IF u = t THEN job ELSE [jobs[u] EXCEPT !.progress = job.progress]]
  /\ progressWrites' = [u \in TaskIds |-> IF u = t THEN writes ELSE <<>>]
  /\ response' = Null

\* a pipeline step of job t leaves `job` in the store, having assigned
\* `writes` to job.progress; it sends no HTTP response
StoreJob(t, job, writes) ==
  /\ jobs' = [jobs EXCEPT ![t] = job]
  /\ progressWrites' = [u \in TaskIds |-> IF u = t THEN writes ELSE <<>>]
  /\ response' = Null

\* processVideo's catch block: the job fails with `message`
Fail(t, message) ==
  /\ StoreJob(t, CatchError(jobs[t], message), <<>>)
  /\ pc' = [pc EXCEPT ![t] = "done"]

\* identifyMusicTracks up to its first await: either it returns [] at once
\* (no credentials, or nothing to identify) or the first batch is in flight
StartIdentify(t, files) ==
  IF ~config.credentials \/ Len(files) = 0
  THEN /\ pc' = [pc EXCEPT ![t] = "compile"]
       /\ identified' = [identified EXCEPT ![t] = <<>>]
       /\ UNCHANGED <<idx, inflight, batchResults, allResults, dispatched>>
  ELSE LET mc == maxConcurrent(config.maxConcurrent, Len(files))
           batch == BatchPositions(0, mc, Len(files))
       IN /\ pc' = [pc EXCEPT ![t] = "identify"]
          /\ idx' = [idx EXCEPT ![t] = 0]
          /\ inflight' = [inflight EXCEPT ![t] = batch]
          /\ batchResults' = [batchResults EXCEPT ![t] = <<>>]
          /\ allResults' = [allResults EXCEPT ![t] = <<>>]
          /\ dispatched' = [dispatched EXCEPT ![t] = FilesAt(1, Min(mc, Len(files)), files)]
          /\ UNCHANGED identified

\* Fallback as a catch block that tries the segment mode again
FallbackRetrySegments(t) ==
  /\ useFullAudio' = [useFullAudio EXCEPT ![t] = TRUE]
  /\ calls' = [calls EXCEPT ![t].segments = @ + 1]
  /\ ytLast' = [ytLast EXCEPT ![t] = 0]
  /\ pc' = [pc EXCEPT ![t] = "getVideoInfo"]

\* the catch (segmentError) block of processVideo: switch to the full path
Fallback(t) ==
  /\ useFullAudio' = [useFullAudio EXCEPT ![t] = TRUE]
  /\ calls' = [calls EXCEPT ![t].full = @ + 1]
  /\ ytLast' = [ytLast EXCEPT ![t] = 0]
  /\ pc' = [pc EXCEPT ![t] = "fullDownload"]

\* PostExtract with a task id that is not fresh: the record of an earlier
\* job is overwritten
PostExtractReusedId(t, url) ==
  /\ LET created == [taskId |-> t, status |-> "processing", progress |-> 0,
                     downloadProgress |-> 0, videoUrl |-> url,
                     result |-> Null, error |-> Null]
         job == downloadProgressCallback(created, 10)
     IN /\ jobs' = (t :> job) @@ jobs
        /\ progressWrites' = [u \in TaskIds |->
                                IF u = t THEN <<0, 0, job.progress>> ELSE <<>>]
  /\ calls' = [calls EXCEPT ![t].segments = @ + 1]
  /\ pc' = [pc EXCEPT ![t] = "getVideoInfo"]
  /\ response' = [code |-> 200, taskId |-> t, status |-> "processing"]
  /\ UNCHANGED <<config, pureVars, useFullAudio, videoFile, fetchVars, ytLast, segmentFiles, identVars>>

\* POST /api/extract with a valid URL: the job is created and processVideo
\* runs up to `await getVideoInfo(url)` inside downloadVideoSegments
PostExtract(t, url) ==
  /\ t \notin DOMAIN jobs
  /\ LET created == [taskId |-> t, status |-> "processing", progress |-> 0,
                     downloadProgress |-> 0, videoUrl |-> url,
                     result |-> Null, error |-> Null]
         job == downloadProgressCallback(created, 10)
     IN /\ jobs' = (t :> job) @@ jobs
        /\ progressWrites' = [u \in TaskIds |->
                                IF u = t THEN <<0, 0, job.progress>> ELSE <<>>]
  /\ calls' = [calls EXCEPT ![t].segments = @ + 1]
  /\ pc' = [pc EXCEPT ![t] = "getVideoInfo"]
  /\ response' = [code |-> 200, taskId |-> t, status |-> "processing"]
  /\ UNCHANGED <<config, pureVars, useFullAudio, videoFile, fetchVars, ytLast, segmentFiles, identVars>>

\* PostExtractRejected as a handler that stores the job before it
\* validates the body
PostExtractRejectedStoresJob(videoUrl) ==
  /\ IF NotAString(videoUrl) THEN TRUE ELSE URLThrows(videoUrl.string)
  /\ response' = IF NotAString(videoUrl)
                 THEN [code |-> 400, error |-> "Video URL is required"]
                 ELSE [code |-> 400, error |-> "Invalid URL format"]
  /\ jobs' = IF DOMAIN jobs = TaskIds THEN jobs
             ELSE LET t == CHOOSE u \in TaskIds : u \notin DOMAIN jobs
                  IN (t :> [taskId |-> t, status |-> "processing", progress |-> 0,
                            downloadProgress |-> 0, videoUrl |-> videoUrl,
                            result |-> Null, error |-> Null]) @@ jobs
  /\ progressWrites' = [u \in TaskIds |-> <<>>]
  /\ UNCHANGED <<config, pureVars, pc, useFullAudio, videoFile, fetchVars, ytLast, segmentFiles,
                 identVars, calls>>

\* POST /api/extract whose videoUrl fails one of the two validations: the
\* handler returns 400 before it creates a job
PostExtractRejected(videoUrl) ==
  /\ IF NotAString(videoUrl) THEN TRUE ELSE URLThrows(videoUrl.string)
  /\ response' = IF NotAString(videoUrl)
                 THEN [code |-> 400, error |-> "Video URL is required"]
                 ELSE [code |-> 400, error |-> "Invalid URL format"]
  /\ progressWrites' = [u \in TaskIds |-> <<>>]
  /\ UNCHANGED <<config, pureVars, jobs, pc, useFullAudio, videoFile, fetchVars, ytLast, segmentFiles,
                 identVars, calls>>

\* getVideoInfo's test on the duration: the ffprobe branch taken for a
\* direct media URL returns without it, the yt-dlp branch throws above
\* MAX_DURATION
durationAccepted(url, duration) ==
  isDirectVideoFile(url) \/ ~(duration > MAX_DURATION)

\* getVideoInfo resolved with `duration`: the plan is computed and every
\* segment download is started
GetVideoInfoOk(t, duration) ==
  /\ pc[t] = "getVideoInfo"
  /\ durationAccepted(jobs[t].videoUrl, duration)
  /\ LET positions == calculateSegmentPositions(duration)
         job == downloadProgressCallback(jobs[t], 20)
     IN /\ plan' = [plan EXCEPT ![t] = positions]
        /\ segState' = [segState EXCEPT ![t] = [k \in 1..Len(positions) |-> "pending"]]
        /\ StoreJob(t, job, <<job.progress>>)
  /\ completed' = [completed EXCEPT ![t] = 0]
  /\ pc' = [pc EXCEPT ![t] = "segments"]
  /\ UNCHANGED <<config, pureVars, useFullAudio, videoFile, reported, ytLast, segmentFiles, identVars, calls>>

\* getVideoInfo threw 'Video too long': like every rejection of getVideoInfo
\* it is rethrown by downloadVideoSegments and taken for a segment failure
GetVideoInfoTooLong(t, duration) ==
  /\ pc[t] = "getVideoInfo"
  /\ ~durationAccepted(jobs[t].videoUrl, duration)
  /\ Fallback(t)
  /\ StoreJob(t, jobs[t], <<>>)
  /\ UNCHANGED <<config, pureVars, videoFile, fetchVars, segmentFiles, identVars>>

\* getVideoInfo rejected: downloadVideoSegments rethrows, processVideo
\* falls back to the full download
GetVideoInfoFail(t) ==
  /\ pc[t] = "getVideoInfo"
  /\ Fallback(t)
  /\ StoreJob(t, jobs[t], <<>>)
  /\ UNCHANGED <<config, pureVars, videoFile, fetchVars, segmentFiles, identVars>>

\* one downloadAudioSegment promise resolved: the .then handler
SegmentOk(t, k) ==
  /\ pc[t] = "segments"
  /\ k \in 1..Len(segState[t])
  /\ segState[t][k] = "pending"
  /\ segState' = [segState EXCEPT ![t][k] = "ok"]
  /\ completed' = [completed EXCEPT ![t] = @ + 1]
  /\ LET progress == SegmentProgress(completed[t] + 1, Len(plan[t]))
         job == downloadProgressCallback(jobs[t], OverallProgress(progress))
     IN /\ reported' = [reported EXCEPT ![t] = Append(@, progress)]
        /\ StoreJob(t, job, <<job.progress>>)
  /\ UNCHANGED <<config, pureVars, pc, useFullAudio, videoFile, plan, ytLast, segmentFiles, identVars, calls>>

\* one downloadAudioSegment promise rejected: the .catch handler
SegmentFail(t, k) ==
  /\ pc[t] = "segments"
  /\ k \in 1..Len(segState[t])
  /\ segState[t][k] = "pending"
  /\ segState' = [segState EXCEPT ![t][k] = "failed"]
  /\ StoreJob(t, jobs[t], <<>>)
  /\ UNCHANGED <<config, pureVars, pc, useFullAudio, videoFile, plan, completed, reported, ytLast,
                 segmentFiles, identVars, calls>>

\* Promise.all(downloadPromises) resolved: downloadAudioSegments returns or
\* throws, and processVideo continues up to its next await
SegmentsSettled(t) ==
  /\ pc[t] = "segments"
  /\ \A k \in 1..Len(segState[t]) : segState[t][k] # "pending"
  /\ LET successful == successfulSegments(segState[t], plan[t])
     IN IF AllSegmentsFailed(successful)
        THEN /\ Fallback(t)
             /\ StoreJob(t, jobs[t], <<>>)
             /\ UNCHANGED <<segmentFiles, identVars>>
        ELSE LET job == downloadProgressCallback(jobs[t], 100)
             IN /\ segmentFiles' = [segmentFiles EXCEPT ![t] = successful]
                /\ StoreJob(t, [job EXCEPT !.progress = 60],
                            <<job.progress, 50, 60>>)
                /\ StartIdentify(t, successful)
                /\ UNCHANGED <<useFullAudio, calls, ytLast>>
  /\ UNCHANGED <<config, pureVars, videoFile, fetchVars>>

\* parseProgressOutput without the range test and the clamp
parseProgressOutputUnchecked(progress) == {progress}

\* parseProgressOutput on a line whose percentage is `progress`: the values
\* handed to the progress callback
parseProgressOutput(progress) ==
  IF progress >= 0 /\ progress <= 100
  THEN {Min(100, Max(0, progress))}
  ELSE {}

\* YtDlpProgress as a child process whose buffered output is still
\* delivered after its exit was reported to processVideo
YtDlpProgressAfterClose(t, percent) ==
  /\ pc[t] \in {"fullDownload", "done"}
  /\ useFullAudio[t]
  /\ ~isDirectVideoFile(jobs[t].videoUrl)
  /\ percent >= ytLast[t]
  /\ ytLast' = [ytLast EXCEPT ![t] = percent]
  /\ \E progress \in parseProgressOutput(percent) :
       LET job == downloadProgressCallback(jobs[t], progress)
       IN StoreJob(t, job, <<job.progress>>)
  /\ UNCHANGED <<config, pureVars, pc, useFullAudio, videoFile, fetchVars, segmentFiles, identVars, calls>>

\* yt-dlp printed a progress line during the full download
YtDlpProgress(t, percent) ==
  /\ pc[t] = "fullDownload"
  /\ ~isDirectVideoFile(jobs[t].videoUrl)
  /\ percent >= ytLast[t]
  /\ ytLast' = [ytLast EXCEPT ![t] = percent]
  /\ \E progress \in parseProgressOutput(percent) :
       LET job == downloadProgressCallback(jobs[t], progress)
       IN StoreJob(t, job, <<job.progress>>)
  /\ UNCHANGED <<config, pureVars, pc, useFullAudio, videoFile, fetchVars, segmentFiles, identVars, calls>>

\* processVideo after the audio file of the full path is at hand:
\* progress 50, then 60, then extractMetadata and splitAudioSegments start
StartSplit(t) ==
  /\ StoreJob(t, [jobs[t] EXCEPT !.progress = 60], <<50, 60>>)
  /\ pc' = [pc EXCEPT ![t] = "split"]

\* downloadFullAudio resolved; a direct URL may yield a video file, from
\* which extractAudio has to produce the audio
FullDownloadOk(t, kind) ==
  /\ pc[t] = "fullDownload"
  /\ kind = "videoFile" => isDirectVideoFile(jobs[t].videoUrl)
  /\ IF kind = "audioFile"
     THEN StartSplit(t) /\ UNCHANGED videoFile
     ELSE /\ StoreJob(t, jobs[t], <<>>)
          /\ videoFile' = [videoFile EXCEPT ![t] = TRUE]
          /\ pc' = [pc EXCEPT ![t] = "extractAudio"]
  /\ UNCHANGED <<config, pureVars, useFullAudio, fetchVars, ytLast, segmentFiles, identVars, calls>>

\* FullDownloadFail as a catch block that goes back to the segment mode
FullDownloadFailRetries(t) ==
  /\ pc[t] = "fullDownload"
  /\ StoreJob(t, jobs[t], <<>>)
  /\ calls' = [calls EXCEPT ![t].segments = @ + 1]
  /\ pc' = [pc EXCEPT ![t] = "getVideoInfo"]
  /\ UNCHANGED <<config, pureVars, useFullAudio, videoFile, fetchVars, ytLast, segmentFiles, identVars>>

\* downloadFullAudio rejected: both paths are exhausted
FullDownloadFail(t) ==
  /\ pc[t] = "fullDownload"
  /\ Fail(t, "Failed to download video")
  /\ UNCHANGED <<config, pureVars, useFullAudio, videoFile, fetchVars, ytLast, segmentFiles, identVars, calls>>

ExtractAudioOk(t) ==
  /\ pc[t] = "extractAudio"
  /\ StartSplit(t)
  /\ UNCHANGED <<config, pureVars, useFullAudio, videoFile, fetchVars, ytLast, segmentFiles, identVars, calls>>

\* ExtractAudioFail as a handler that downloads the asset again
ExtractAudioFailRetries(t) ==
  /\ pc[t] = "extractAudio"
  /\ StoreJob(t, jobs[t], <<>>)
  /\ pc' = [pc EXCEPT ![t] = "fullDownload"]
  /\ UNCHANGED <<config, pureVars, useFullAudio, videoFile, fetchVars, ytLast, segmentFiles, identVars, calls>>

\* extractAudio rejected: processVideo's catch block fails the job
ExtractAudioFail(t) ==
  /\ pc[t] = "extractAudio"
  /\ Fail(t, "Audio extraction failed")
  /\ UNCHANGED <<config, pureVars, useFullAudio, videoFile, fetchVars, ytLast, segmentFiles, identVars, calls>>

\* Promise.all([metadataPromise, segmentsPromise]) resolved with n files
SplitOk(t, n) ==
  /\ pc[t] = "split"
  /\ segmentFiles' = [segmentFiles EXCEPT ![t] = SplitFiles(n)]
  /\ StoreJob(t, [jobs[t] EXCEPT !.progress = 70], <<70>>)
  /\ StartIdentify(t, SplitFiles(n))
  /\ UNCHANGED <<config, pureVars, useFullAudio, videoFile, fetchVars, ytLast, calls>>

SplitFail(t) ==
  /\ pc[t] = "split"
  /\ Fail(t, "Failed to split audio")
  /\ UNCHANGED <<config, pureVars, useFullAudio, videoFile, fetchVars, ytLast, segmentFiles, identVars, calls>>

\* one identifyWithACRCloud call of the running batch resolved
IdentifyReturn(t, k, outcome) ==
  /\ pc[t] = "identify"
  /\ k \in inflight[t]
  /\ inflight' = [inflight EXCEPT ![t] = @ \ {k}]
  /\ LET value == identifyWithACRCloud(outcome, k - 1)
     IN IF value = Thrown
        THEN \* a rejected call rejects Promise.all, identifyMusicTracks and
             \* the await in processVideo, whose catch block fails the job
             /\ Fail(t, "identification failed")
             /\ UNCHANGED batchResults
        ELSE /\ batchResults' = [batchResults EXCEPT ![t] = (k :> value) @@ @]
             /\ StoreJob(t, jobs[t], <<>>)
             /\ UNCHANGED pc
  /\ UNCHANGED <<config, pureVars, useFullAudio, videoFile, fetchVars, ytLast, segmentFiles,
                 idx, allResults, identified, dispatched, calls>>

\* Promise.all of the batch resolved: results collected, progress updated;
\* after the last batch the duplicates are removed and the list returned
BatchDone(t) ==
  /\ pc[t] = "identify"
  /\ inflight[t] = {}
  /\ LET total == Len(segmentFiles[t])
         mc == maxConcurrent(config.maxConcurrent, total)
         last == Min(idx[t] + mc, total)
         all == allResults[t] \o BatchFiltered(idx[t] + 1, last, batchResults[t])
         progress == batchProgress(last, total)
     IN /\ allResults' = [allResults EXCEPT ![t] = all]
        /\ StoreJob(t, [jobs[t] EXCEPT !.progress = progress], <<progress>>)
        /\ IF idx[t] + mc < total
           THEN /\ pc' = [pc EXCEPT ![t] = "batchDelay"]
                /\ UNCHANGED identified
           ELSE /\ pc' = [pc EXCEPT ![t] = "compile"]
                /\ identified' = [identified EXCEPT ![t] = removeDuplicates(all)]
  /\ UNCHANGED <<config, pureVars, useFullAudio, videoFile, fetchVars, ytLast, segmentFiles,
                 idx, inflight, batchResults, dispatched, calls>>

\* DelayElapsed with a loop increment of maxConcurrent + 1
DelayElapsedSkipping(t) ==
  /\ pc[t] = "batchDelay"
  /\ LET total == Len(segmentFiles[t])
         mc == maxConcurrent(config.maxConcurrent, total)
         i == idx[t] + mc + 1
         batch == BatchPositions(i, mc, total)
     IN /\ idx' = [idx EXCEPT ![t] = i]
        /\ inflight' = [inflight EXCEPT ![t] = batch]
        /\ batchResults' = [batchResults EXCEPT ![t] = <<>>]
        /\ dispatched' = [dispatched EXCEPT
                            ![t] = @ \o FilesAt(i + 1, Min(i + mc, total), segmentFiles[t])]
  /\ pc' = [pc EXCEPT ![t] = "identify"]
  /\ StoreJob(t, jobs[t], <<>>)
  /\ UNCHANGED <<config, pureVars, useFullAudio, videoFile, fetchVars, ytLast, segmentFiles,
                 allResults, identified, calls>>

\* the 50 ms delay between batches elapsed: the next batch is started
DelayElapsed(t) ==
  /\ pc[t] = "batchDelay"
  /\ LET total == Len(segmentFiles[t])
         mc == maxConcurrent(config.maxConcurrent, total)
         i == idx[t] + mc
         batch == BatchPositions(i, mc, total)
     IN /\ idx' = [idx EXCEPT ![t] = i]
        /\ inflight' = [inflight EXCEPT ![t] = batch]
        /\ batchResults' = [batchResults EXCEPT ![t] = <<>>]
        /\ dispatched' = [dispatched EXCEPT
                            ![t] = @ \o FilesAt(i + 1, Min(i + mc, total), segmentFiles[t])]
  /\ pc' = [pc EXCEPT ![t] = "identify"]
  /\ StoreJob(t, jobs[t], <<>>)
  /\ UNCHANGED <<config, pureVars, useFullAudio, videoFile, fetchVars, ytLast, segmentFiles,
                 allResults, identified, calls>>

\* compileResult with tracksFound counted over the analysed segments
compileResultCountsSegments(tracks, files, full) ==
  [identifiedTracks |-> tracks,
   audioMetadata |-> [downloadMode |-> downloadModeTag(full)],
   processingInfo |-> [status |-> "completed",
                       tracksFound |-> Len(files),
                       segmentsAnalyzed |-> Len(files),
                       downloadMode |-> processingDownloadModeTag(full)]]

\* the result processVideo assembles (STEP 3)
compileResult(tracks, files, full) ==
  [identifiedTracks |-> tracks,
   audioMetadata |-> [downloadMode |-> downloadModeTag(full)],
   processingInfo |-> [status |-> "completed",
                       tracksFound |-> Len(tracks),
                       segmentsAnalyzed |-> Len(files),
                       downloadMode |-> processingDownloadModeTag(full)]]

\* identifyMusicTracks resolved: progress 95, result compiled, job completed
Compile(t) ==
  /\ pc[t] = "compile"
  /\ StoreJob(t, [jobs[t] EXCEPT
                    !.result = compileResult(identified[t], segmentFiles[t],
                                             useFullAudio[t]),
                    !.status = "completed",
                    !.progress = 100],
              <<95, 100>>)
  /\ pc' = [pc EXCEPT ![t] = "done"]
  /\ UNCHANGED <<config, pureVars, useFullAudio, videoFile, fetchVars, ytLast, segmentFiles, identVars, calls>>

\* GET /api/status/:taskId
GetStatus(t) ==
  /\ response' = IF t \notin DOMAIN jobs
                 THEN [code |-> 404, error |-> "Task not found"]
                 ELSE [code |-> 200, taskId |-> t, status |-> jobs[t].status,
                       progress |-> jobs[t].progress,
                       downloadProgress |-> jobs[t].downloadProgress]
  /\ progressWrites' = [u \in TaskIds |-> <<>>]
  /\ UNCHANGED <<config, pureVars, jobs, pc, useFullAudio, videoFile, fetchVars, ytLast, segmentFiles,
                 identVars, calls>>

\* GetResult as a handler that answers every known job with 200
GetResultAlwaysOk(t) ==
  /\ response' = IF t \notin DOMAIN jobs
                 THEN [code |-> 404, error |-> "Task not found"]
                 ELSE IF jobs[t].status = "processing"
                 THEN [code |-> 200, taskId |-> t, status |-> "processing",
                       progress |-> jobs[t].progress]
                 ELSE [code |-> 200, taskId |-> t, status |-> jobs[t].status,
                       result |-> jobs[t].result]
  /\ progressWrites' = [u \in TaskIds |-> <<>>]
  /\ UNCHANGED <<config, pureVars, jobs, pc, useFullAudio, videoFile, fetchVars, ytLast, segmentFiles,
                 identVars, calls>>

\* GET /api/result/:taskId
GetResult(t) ==
  /\ response' = IF t \notin DOMAIN jobs
                 THEN [code |-> 404, error |-> "Task not found"]
                 ELSE IF jobs[t].status = "processing"
                 THEN [code |-> 200, taskId |-> t, status |-> "processing",
                       progress |-> jobs[t].progress]
                 ELSE IF jobs[t].status = "failed"
                 THEN [code |-> 500, taskId |-> t, status |-> "failed",
                       error |-> jobs[t].error]
                 ELSE [code |-> 200, taskId |-> t, status |-> jobs[t].status,
                       result |-> jobs[t].result]
  /\ progressWrites' = [u \in TaskIds |-> <<>>]
  /\ UNCHANGED <<config, pureVars, jobs, pc, useFullAudio, videoFile, fetchVars, ytLast, segmentFiles,
                 identVars, calls>>

\* one step of a pipeline, for requests that use the task ids T and the
\* URLs U, and collaborators that answer with asset durations D, durations
\* S of the full audio and recognition outcomes O
Pipeline(T, U, D, S, O) ==
  \/ \E t \in T, url \in U : PostExtract(t, url)
  \/ \E t \in T, d \in D : GetVideoInfoOk(t, d)
  \/ \E t \in T : GetVideoInfoFail(t)
  \/ \E t \in T, k \in 1..NUM_SEGMENTS : SegmentOk(t, k)
  \/ \E t \in T, k \in 1..NUM_SEGMENTS : SegmentFail(t, k)
  \/ \E t \in T : SegmentsSettled(t)
  \/ \E t \in T, p \in YtDlpPercents : YtDlpProgress(t, p)
  \/ \E t \in T, kind \in {"audioFile", "videoFile"} : FullDownloadOk(t, kind)
  \/ \E t \in T : FullDownloadFail(t)
  \/ \E t \in T : ExtractAudioOk(t)
  \/ \E t \in T : ExtractAudioFail(t)
  \/ \E t \in T, d \in S : SplitOk(t, segmentCount(d))
  \/ \E t \in T : SplitFail(t)
  \/ \E t \in T, o \in O :
       \E k \in (1..NUM_SEGMENTS) \cup UNION {1..segmentCount(d) : d \in S} :
         IdentifyReturn(t, k, o)
  \/ \E t \in T : BatchDone(t)
  \/ \E t \in T : DelayElapsed(t)
  \/ \E t \in T : Compile(t)

\* the polling endpoints, for any task id a client may ask about
Http(T) ==
  \/ \E t \in T : GetStatus(t)
  \/ \E t \in T : GetResult(t)

\* one job at a time, every input
Next ==
  \/ Pipeline({"t1"}, Urls, Durations, AudioDurations, Outcomes)
  \/ \E videoUrl \in Payloads : PostExtractRejected(videoUrl)
  \/ Http(TaskIds)

Spec == Init /\ [][Next]_vars

\* the pipelines of two jobs running at the same time, on a short asset
NextJobs ==
  Pipeline(TaskIds, Urls, {10}, {2 * SEGMENT_DURATION},
       {[kind |-> "match", music |-> 1], [kind |-> "nomatch", music |-> 0]})

SpecJobs == Init /\ [][NextJobs]_vars

\* one job on a 600-second asset whose audio nothing is recognised in
NextFallback ==
  Pipeline({"t1"}, Urls, {FallbackDuration}, {FallbackDuration},
       {[kind |-> "nomatch", music |-> 0], [kind |-> "timeout", music |-> 0]})

SpecFallback == Init /\ [][NextFallback]_vars

(* ------------------- one job, every call answered --------------------- *)
\* the steps of processVideo that follow the return or the failure of a call
\* it awaits: a collaborator's answer, a settled Promise.all, an elapsed timer
Returns(T, D, S, O) ==
  \/ \E t \in T, d \in D : GetVideoInfoOk(t, d)
  \/ \E t \in T : GetVideoInfoFail(t)
  \/ \E t \in T, k \in 1..NUM_SEGMENTS : SegmentOk(t, k)
  \/ \E t \in T, k \in 1..NUM_SEGMENTS : SegmentFail(t, k)
  \/ \E t \in T : SegmentsSettled(t)
  \/ \E t \in T, kind \in {"audioFile", "videoFile"} : FullDownloadOk(t, kind)
  \/ \E t \in T : FullDownloadFail(t)
  \/ \E t \in T : ExtractAudioOk(t)
  \/ \E t \in T : ExtractAudioFail(t)
  \/ \E t \in T, d \in S : SplitOk(t, segmentCount(d))
  \/ \E t \in T : SplitFail(t)
  \/ \E t \in T, o \in O :
       \E k \in (1..NUM_SEGMENTS) \cup UNION {1..segmentCount(d) : d \in S} :
         IdentifyReturn(t, k, o)
  \/ \E t \in T : BatchDone(t)
  \/ \E t \in T : DelayElapsed(t)
  \/ \E t \in T : Compile(t)

\* a one-window asset on the segment path, three windows on the full path
ReturnsLive ==
  Returns({"t1"}, {10}, {3 * SEGMENT_DURATION - 5},
          {[kind |-> "match", music |-> 1], [kind |-> "timeout", music |-> 0]})

\* a job is submitted, yt-dlp prints progress as often as it likes, and
\* every awaited call is answered
NextLive ==
  \/ \E url \in Urls : PostExtract("t1", url)
  \/ \E p \in YtDlpPercents : YtDlpProgress("t1", p)
  \/ ReturnsLive

\* every call processVideo awaits eventually returns or fails
SpecLive == Init /\ [][NextLive]_vars /\ WF_vars(ReturnsLive)

(* ------------------ one job on an asset that is too long --------------- *)
\* downloadFullAudio on an asset longer than MAX_DURATION: downloadWithYtDlp
\* throws after --dump-json, before it downloads; downloadDirectFile fetches
\* the audio (or the file), removes what it fetched and still returns its path
FullDownloadTooLong(t) ==
  /\ t \in DOMAIN jobs
  /\ IF isDirectVideoFile(jobs[t].videoUrl)
     THEN \E kind \in {"audioFile", "videoFile"} : FullDownloadOk(t, kind)
     ELSE FullDownloadFail(t)

\* every step a job on an asset of MAX_DURATION + 1 seconds can take: the
\* path returned by downloadDirectFile names a removed file, so extraction
\* and split can only fail
NextTooLong ==
  \/ \E url \in Urls : PostExtract("t1", url)
  \/ GetVideoInfoOk("t1", MAX_DURATION + 1)
  \/ GetVideoInfoTooLong("t1", MAX_DURATION + 1)
  \/ \E k \in 1..NUM_SEGMENTS : SegmentOk("t1", k)
  \/ \E k \in 1..NUM_SEGMENTS : SegmentFail("t1", k)
  \/ SegmentsSettled("t1")
  \/ FullDownloadTooLong("t1")
  \/ ExtractAudioFail("t1")
  \/ SplitFail("t1")
  \/ \E o \in {[kind |-> "match", music |-> 1], [kind |-> "nomatch", music |-> 0]},
        k \in 1..NUM_SEGMENTS : IdentifyReturn("t1", k, o)
  \/ BatchDone("t1")
  \/ DelayElapsed("t1")
  \/ Compile("t1")

SpecTooLong == Init /\ [][NextTooLong]_vars

(* --------------------- SegmentPlanner on its own ----------------------- *)
pipelineVars == <<config, jobs, pc, useFullAudio, videoFile, fetchVars, ytLast,
                  segmentFiles, identVars, calls, progressWrites, response>>

\* a process whose environment sets SEGMENT_DURATION and NUM_SEGMENTS
InitPlanner ==
  /\ InitPipeline
  /\ config = [credentials |-> TRUE, maxConcurrent |-> 1]
  /\ planner \in [W : WindowLengths, N : 1..NUM_SEGMENTS, first : {Null},
                   last : {Null}, interleaved : {FALSE}]
  /\ dedup = DedupIdle
  /\ ServicesIdle

\* PlannerCall with `added` kept at module level: keys added by the
\* previous call are still in the Set
PlannerCallSharedAdded(duration) ==
  /\ LET fresh == PlanSegments(duration, planner.W, planner.N)
         NotAdded(w) == planner.last = Null \/ w \notin Range(planner.last.segments)
         call == [duration |-> duration,
                  segments |-> IF duration <= planner.W THEN fresh
                               ELSE SelectSeq(fresh, NotAdded)]
     IN planner' = [planner EXCEPT
                      !.last = call,
                      !.first = IF @ = Null THEN call ELSE @,
                      !.interleaved = @ \/ (planner.first # Null /\
                                             planner.first.duration # duration)]
  /\ UNCHANGED <<pipelineVars, dedup, serviceVars>>

\* one call calculateSegmentPositions(duration); the first call of the
\* process and the latest one are kept, with what they returned
PlannerCall(duration) ==
  /\ LET call == [duration |-> duration,
                  segments |-> PlanSegments(duration, planner.W, planner.N)]
     IN planner' = [planner EXCEPT
                      !.last = call,
                      !.first = IF @ = Null THEN call ELSE @,
                      !.interleaved = @ \/ (planner.first # Null /\
                                             planner.first.duration # duration)]
  /\ UNCHANGED <<pipelineVars, dedup, serviceVars>>

NextPlanner == \E duration \in PlannerDurations : PlannerCall(duration)

SpecPlanner == InitPlanner /\ [][NextPlanner]_vars

(* ----------------------- Deduplicator on its own ----------------------- *)
\* (title, artist) pairs the recognition service may answer with: two that
\* differ only by case, and two whose title and artist both contain "-"
DedupNames ==
  { [title |-> <<"X">>, artist |-> <<"Y">>],
    [title |-> <<"x">>, artist |-> <<"y">>],
    [title |-> <<"x", "-", "y">>, artist |-> <<"y">>],
    [title |-> <<"x">>, artist |-> <<"y", "-", "y">>] }
\* tracks identifyWithACRCloud may have resolved with
DedupTracks ==
  { [title |-> n.title, artist |-> n.artist, start |-> r[1], end |-> r[2],
     confidence |-> c] :
      n \in DedupNames, r \in {<<10, 25>>, <<100, 115>>}, c \in {80, 95} }
\* allResults: what the batches collected, in order
TrackLists == UNION {[1..n -> DedupTracks] : n \in 0..MaxTracks}

\* identifyMusicTracks is about to enter its deduplication loop
InitDedup ==
  /\ InitPipeline
  /\ config = [credentials |-> TRUE, maxConcurrent |-> 1]
  /\ planner = PlannerIdle
  /\ dedup \in {[phase |-> "loop", identifiedTracks |-> l, position |-> 0,
                  uniqueTracks |-> <<>>, returned |-> <<>>, again |-> <<>>] :
                   l \in TrackLists}
  /\ ServicesIdle

\* one iteration of `for (const track of identifiedTracks)`
DedupIterate ==
  /\ dedup.phase = "loop"
  /\ dedup.position < Len(dedup.identifiedTracks)
  /\ LET k == dedup.position + 1
     IN dedup' = [dedup EXCEPT
                    !.position = k,
                    !.uniqueTracks =
                       DedupLoop(k, SubSeq(dedup.identifiedTracks, 1, k), @)]
  /\ UNCHANGED <<pipelineVars, planner, serviceVars>>

\* `return uniqueTracks` after the last iteration
DedupReturn ==
  /\ dedup.phase = "loop"
  /\ dedup.position = Len(dedup.identifiedTracks)
  /\ dedup' = [dedup EXCEPT !.phase = "returned",
                            !.returned = dedup.uniqueTracks]
  /\ UNCHANGED <<pipelineVars, planner, serviceVars>>

\* the deduplication applied to the list it has returned
DedupAgain ==
  /\ dedup.phase = "returned"
  /\ dedup' = [dedup EXCEPT !.phase = "again",
                            !.again = removeDuplicates(dedup.returned)]
  /\ UNCHANGED <<pipelineVars, planner, serviceVars>>

NextDedup ==
  \/ DedupIterate
  \/ DedupReturn
  \/ DedupAgain

SpecDedup == InitDedup /\ [][NextDedup]_vars

(* --------------------------- GET /api/download -------------------------- *)
\* characters of a requested name; "%2F" is an encoded separator
NameChars == {"/", ".", "a", "d", "x", "f", "s", "%2F"}

\* values of req.params.filename, as Express hands them to the handler
Filenames == UNION {[1..n -> NameChars] : n \in 1..MaxName}

\* process.cwd(): /a
cwd == << <<"a">> >>

\* `process.env.DOWNLOAD_DIR || './downloads'`: the relative name ./d
DOWNLOAD_DIR == <<".", "/", "d">>

\* regular files on the disk: the artifact /a/d/f, the file /a/dx/s in a
\* directory whose name starts with the root's name, and /a/s and /s
DiskFiles ==
  { << <<"a">>, <<"d">>, <<"f">> >>,
    << <<"a">>, <<"d", "x">>, <<"s">> >>,
    << <<"a">>, <<"s">> >>,
    << <<"s">> >> }

decodeURIComponent(string) ==
  [k \in 1..Len(string) |-> IF string[k] = "%2F" THEN "/" ELSE string[k]]

\* the components of a path string, empty ones included
RECURSIVE SplitFrom(_, _, _)
SplitFrom(string, k, current) ==
  IF k > Len(string) THEN <<current>>
  ELSE IF string[k] = "/"
       THEN <<current>> \o SplitFrom(string, k + 1, <<>>)
       ELSE SplitFrom(string, k + 1, Append(current, string[k]))

\* path normalisation: '.' and empty components are dropped, '..' removes
\* the component before it
RECURSIVE NormalizeFrom(_, _, _)
NormalizeFrom(parts, k, acc) ==
  IF k > Len(parts) THEN acc
  ELSE IF parts[k] = <<>> \/ parts[k] = <<".">>
       THEN NormalizeFrom(parts, k + 1, acc)
       ELSE IF parts[k] = <<".", ".">>
            THEN NormalizeFrom(parts, k + 1,
                               IF acc = <<>> THEN acc ELSE SubSeq(acc, 1, Len(acc) - 1))
            ELSE NormalizeFrom(parts, k + 1, Append(acc, parts[k]))

\* path.resolve: the absolute path of a path string, as its components
resolve(string) ==
  NormalizeFrom(SplitFrom(string, 1, <<>>), 1,
                IF string # <<>> /\ string[1] = "/" THEN <<>> ELSE cwd)

\* path.basename: the last component that is not empty
basename(string) ==
  LET parts == SelectSeq(SplitFrom(string, 1, <<>>), LAMBDA c : c # <<>>)
  IN IF parts = <<>> THEN <<>> ELSE parts[Len(parts)]

\* the string of an absolute path
RECURSIVE pathString(_)
pathString(parts) ==
  IF parts = <<>> THEN <<>>
  ELSE pathString(SubSeq(parts, 1, Len(parts) - 1)) \o <<"/">> \o parts[Len(parts)]

\* String.prototype.startsWith
startsWith(string, prefix) ==
  /\ Len(prefix) <= Len(string)
  /\ SubSeq(string, 1, Len(prefix)) = prefix

\* fs.existsSync: a file, or a directory on the way to one
existsSync(path) ==
  \E file \in DiskFiles :
    /\ Len(path) <= Len(file)
    /\ SubSeq(file, 1, Len(path)) = path

\* a request for one name has arrived
InitDownload ==
  /\ InitPipeline
  /\ config = [credentials |-> TRUE, maxConcurrent |-> 1]
  /\ planner = PlannerIdle
  /\ dedup = DedupIdle
  /\ cache = CacheIdle
  /\ reaper = ReaperIdle
  /\ cleanup = CleanupIdle
  /\ recognition = RecognitionIdle
  /\ download \in {[DownloadIdle EXCEPT !.phase = "request", !.filename = param] :
                     param \in Filenames}

\* GET /api/download/:filename
GetDownload ==
  /\ download.phase = "request"
  /\ LET filename == decodeURIComponent(download.filename)
         fullPath == "/" \in Range(filename)
         filePath == IF fullPath THEN resolve(filename)
                     ELSE resolve(DOWNLOAD_DIR \o <<"/">> \o basename(filename))
         downloadsDir == resolve(DOWNLOAD_DIR)
         code == IF fullPath /\ ~startsWith(pathString(filePath), pathString(downloadsDir))
                 THEN 403
                 ELSE IF ~existsSync(filePath) THEN 404
                 ELSE IF filePath \in DiskFiles THEN 200
                 ELSE 500
     IN download' = [download EXCEPT
                       !.phase = "answered",
                       !.code = code,
                       !.served = IF code = 200 THEN filePath ELSE <<>>]
  /\ UNCHANGED <<pipelineVars, planner, dedup, cache, reaper, cleanup, recognition>>

NextDownload == GetDownload

SpecDownload == InitDownload /\ [][NextDownload]_vars

(* ------------------------- urlCache / getVideoInfo ---------------------- *)
\* URLs whose metadata is asked for
CacheUrls == {"u1", "u2"}

\* videoInfo objects a resolution may produce
VideoInfos == {[duration |-> 10], [duration |-> 20]}

\* values of Date.now() at which something happens, in milliseconds
CacheInstants ==
  {0, 1, CACHE_DURATION - 1, CACHE_DURATION, CACHE_DURATION + 1}

\* getCachedInfo, treating an entry of age CACHE_DURATION as still valid
isFreshInclusive(entry, now) == (now - entry.timestamp) <= CACHE_DURATION

\* getCachedInfo: `(Date.now() - cached.timestamp) < CACHE_DURATION`
isFresh(entry, now) == (now - entry.timestamp) < CACHE_DURATION

\* urlCache.delete(url)
MapDelete(map, key) == [k \in DOMAIN map \ {key} |-> map[k]]

InitCache ==
  /\ InitPipeline
  /\ config = [credentials |-> TRUE, maxConcurrent |-> 1]
  /\ planner = PlannerIdle
  /\ dedup = DedupIdle
  /\ ServicesIdle

\* time passes
CacheTick(instant) ==
  /\ instant > cache.now
  /\ cache' = [cache EXCEPT !.now = instant,
                            !.last = [op |-> "tick"]]
  /\ UNCHANGED <<pipelineVars, planner, dedup, download, reaper, cleanup, recognition>>

\* getVideoInfo(url) up to its first await: getCachedInfo either returns
\* the cached data, which getVideoInfo returns at once, or deletes the
\* entry and returns null, and the resolution (ffprobe or yt-dlp) starts
GetVideoInfoLookup(url) ==
  /\ LET hit == url \in DOMAIN cache.urlCache /\ isFresh(cache.urlCache[url], cache.now)
     IN cache' = IF hit
                 THEN [cache EXCEPT
                         !.last = [op |-> "lookup", url |-> url, hit |-> TRUE,
                                   removed |-> FALSE,
                                   data |-> cache.urlCache[url].data]]
                 ELSE [cache EXCEPT
                         !.urlCache = MapDelete(@, url),
                         !.pending = @ \cup {url},
                         !.last = [op |-> "lookup", url |-> url, hit |-> FALSE,
                                   removed |-> url \in DOMAIN cache.urlCache,
                                   data |-> Null]]
  /\ UNCHANGED <<pipelineVars, planner, dedup, download, reaper, cleanup, recognition>>

\* the resolution succeeded: cacheVideoInfo(url, videoInfo)
GetVideoInfoResolved(url, videoInfo) ==
  /\ url \in cache.pending
  /\ cache' = [cache EXCEPT
                 !.urlCache = (url :> [data |-> videoInfo, timestamp |-> cache.now]) @@ @,
                 !.pending = @ \ {url},
                 !.last = [op |-> "store", url |-> url]]
  /\ UNCHANGED <<pipelineVars, planner, dedup, download, reaper, cleanup, recognition>>

\* the resolution failed, or the asset is longer than MAX_DURATION:
\* getVideoInfo throws 'Failed to get video info'
GetVideoInfoRejected(url) ==
  /\ url \in cache.pending
  /\ cache' = [cache EXCEPT
                 !.pending = @ \ {url},
                 !.last = [op |-> "reject", url |-> url]]
  /\ UNCHANGED <<pipelineVars, planner, dedup, download, reaper, cleanup, recognition>>

NextCache ==
  \/ \E instant \in CacheInstants : CacheTick(instant)
  \/ \E url \in CacheUrls : GetVideoInfoLookup(url)
  \/ \E url \in CacheUrls, videoInfo \in VideoInfos : GetVideoInfoResolved(url, videoInfo)
  \/ \E url \in CacheUrls : GetVideoInfoRejected(url)

SpecCache == InitCache /\ [][NextCache]_vars

(* ------------------------- cleanupOldFiles (reaper) --------------------- *)
\* names of artifacts in the downloads directory
ArtifactNames == {"f", "g"}

\* downloadAudioSegment names a window file after the title of the asset, the
\* index and the range of the window: the files of the first two windows
windowFiles(url) == IF isDirectVideoFile(url) THEN {"f", "g"} ELSE {"p", "q"}

\* the audio file of a full download: `${uuidv4()}.mp3` for a direct media
\* URL, `${title}.mp3` for a page yt-dlp resolves
fullAudioFile(t, url) == IF isDirectVideoFile(url) THEN t ELSE "r"

\* names a file of the downloads directory may have
FileNames == ArtifactNames \cup {"p", "q", "r"} \cup TaskIds

\* cleanupOldFiles deleting whatever is older than MAX_FILE_AGE
safeDeleteAgeMaxAge == MAX_FILE_AGE

\* cleanupOldFiles: `MAX_FILE_AGE * 1.5`
safeDeleteAge == (MAX_FILE_AGE * 3) \div 2

\* values of Date.now() at which something happens, in milliseconds
ReaperInstants == {0, 1, (MAX_FILE_AGE * 3) \div 2, (MAX_FILE_AGE * 3) \div 2 + 1}

\* the downloads directory holds two artifacts written when the process
\* started, and setupCleanup has not run a sweep yet
InitReaper ==
  /\ InitPipeline
  /\ config = [credentials |-> TRUE, maxConcurrent |-> 1]
  /\ planner = PlannerIdle
  /\ dedup = DedupIdle
  /\ cache = CacheIdle
  /\ download = DownloadIdle
  /\ cleanup = CleanupIdle
  /\ recognition = RecognitionIdle
  /\ reaper = [ReaperIdle EXCEPT
                 !.files = [file \in ArtifactNames |-> [mtime |-> 0, atime |-> 0]]]

\* time passes
ReaperTick(instant) ==
  /\ instant > reaper.now
  /\ reaper' = [reaper EXCEPT !.now = instant]
  /\ UNCHANGED <<pipelineVars, planner, dedup, cache, download, cleanup, recognition>>

\* a pipeline or a download reads an artifact, writes to it, or creates it
Touch(file, kind) ==
  /\ kind \in {"read", "write"} => file \in DOMAIN reaper.files
  /\ kind = "create" => file \notin DOMAIN reaper.files
  /\ reaper' = [reaper EXCEPT
                  !.files = IF kind = "read"
                            THEN [@ EXCEPT ![file].atime = reaper.now]
                            ELSE IF kind = "write"
                            THEN [@ EXCEPT ![file].mtime = reaper.now]
                            ELSE (file :> [mtime |-> reaper.now, atime |-> reaper.now]) @@ @]
  /\ reaper'.files # reaper.files
  /\ UNCHANGED <<pipelineVars, planner, dedup, cache, download, cleanup, recognition>>

\* the for loop of cleanupOldFiles goes on to the next file of `files`, or
\* the sweep ends
NextFile(sweep, file) ==
  IF sweep.todo = {}
  THEN [sweep EXCEPT !.phase = "idle", !.file = "", !.stats = Null]
  ELSE [sweep EXCEPT !.phase = "stat", !.file = file, !.stats = Null,
                     !.todo = @ \ {file}]

\* cleanupOldFiles, started by setupCleanup or by its interval, after
\* `await fs.readdir`: `now` is taken and the first fs.stat is issued
SweepStart ==
  /\ reaper.sweep.phase = "idle"
  /\ \E file \in FileNames :
       /\ reaper.files # <<>> => file \in DOMAIN reaper.files
       /\ reaper' = [reaper EXCEPT
                       !.sweep = NextFile([SweepIdle EXCEPT !.now = reaper.now,
                                                            !.todo = DOMAIN reaper.files],
                                          file)]
  /\ UNCHANGED <<pipelineVars, planner, dedup, cache, download, cleanup, recognition>>

\* fs.stat resolved: the age is computed and either fs.remove is issued or
\* the loop goes on
SweepStatOk ==
  /\ reaper.sweep.phase = "stat"
  /\ reaper.sweep.file \in DOMAIN reaper.files
  /\ LET stats == reaper.files[reaper.sweep.file]
         lastAccess == Max(stats.mtime, stats.atime)
         age == reaper.sweep.now - lastAccess
     IN IF age > safeDeleteAge
        THEN reaper' = [reaper EXCEPT !.sweep.phase = "remove",
                                      !.sweep.stats = stats]
        ELSE \E file \in FileNames :
               /\ reaper.sweep.todo # {} => file \in reaper.sweep.todo
               /\ reaper' = [reaper EXCEPT
                               !.sweep = NextFile([@ EXCEPT !.kept = @ \cup {reaper.sweep.file}],
                                                  file)]
  /\ UNCHANGED <<pipelineVars, planner, dedup, cache, download, cleanup, recognition>>

\* fs.stat rejected: `continue`
SweepStatFail ==
  /\ reaper.sweep.phase = "stat"
  /\ \E file \in FileNames :
       /\ reaper.sweep.todo # {} => file \in reaper.sweep.todo
       /\ reaper' = [reaper EXCEPT !.sweep = NextFile(@, file)]
  /\ UNCHANGED <<pipelineVars, planner, dedup, cache, download, cleanup, recognition>>

\* fs.remove resolved
SweepRemoveOk ==
  /\ reaper.sweep.phase = "remove"
  /\ \E file \in FileNames :
       /\ reaper.sweep.todo # {} => file \in reaper.sweep.todo
       /\ reaper' = [reaper EXCEPT
                       !.files = [k \in DOMAIN @ \ {reaper.sweep.file} |-> @[k]],
                       !.sweep = NextFile([@ EXCEPT !.removed = @ \cup {reaper.sweep.file}],
                                          file)]
  /\ UNCHANGED <<pipelineVars, planner, dedup, cache, download, cleanup, recognition>>

\* SweepRemoveFail as a rejection that reaches the outer catch of
\* cleanupOldFiles and ends the sweep
SweepRemoveFailAborts ==
  /\ reaper.sweep.phase = "remove"
  /\ reaper' = [reaper EXCEPT !.sweep = [@ EXCEPT !.phase = "idle", !.file = "",
                                                  !.stats = Null, !.todo = {}]]
  /\ UNCHANGED <<pipelineVars, planner, dedup, cache, download, cleanup, recognition>>

\* fs.remove rejected: the file is skipped
SweepRemoveFail ==
  /\ reaper.sweep.phase = "remove"
  /\ \E file \in FileNames :
       /\ reaper.sweep.todo # {} => file \in reaper.sweep.todo
       /\ reaper' = [reaper EXCEPT !.sweep = NextFile(@, file)]
  /\ UNCHANGED <<pipelineVars, planner, dedup, cache, download, cleanup, recognition>>

NextReaper ==
  \/ \E instant \in ReaperInstants : ReaperTick(instant)
  \/ \E file \in ArtifactNames, kind \in {"read", "write", "create"} : Touch(file, kind)
  \/ SweepStart
  \/ SweepStatOk
  \/ SweepStatFail
  \/ SweepRemoveOk
  \/ SweepRemoveFail

SpecReaper == InitReaper /\ [][NextReaper]_vars

(* ------------------- identifyWithACRCloud on one file ------------------- *)
\* `const maxFileSize = 1 * 1024 * 1024`
maxFileSize == 1 * 1024 * 1024

\* the literal of `fileStats.size < 1000`
minFileSize == 1000

\* sizes in bytes a segment file may have
SegmentSizes == {0, 1, minFileSize - 1, minFileSize, minFileSize + 1,
                 maxFileSize - 1, maxFileSize, maxFileSize + 1}

\* sizeAccepted without the test on the minimum size
sizeAcceptedNoMinimum(size) ==
  /\ ~(size = 0)
  /\ ~(size > maxFileSize)

\* the three tests identifyWithACRCloud makes on fileStats.size
sizeAccepted(size) ==
  /\ ~(size = 0)
  /\ ~(size > maxFileSize)
  /\ ~(size < minFileSize)

\* identifyWithACRCloud was called on a segment file that is missing or has
\* one of the sizes, with or without credentials in the environment
InitRecognition ==
  /\ InitPipeline
  /\ config = [credentials |-> TRUE, maxConcurrent |-> 1]
  /\ planner = PlannerIdle
  /\ dedup = DedupIdle
  /\ cache = CacheIdle
  /\ download = DownloadIdle
  /\ reaper = ReaperIdle
  /\ cleanup = CleanupIdle
  /\ recognition \in
       {[RecognitionIdle EXCEPT !.phase = "called", !.credentials = c,
                                !.exists = TRUE, !.size = size, !.segmentIndex = i] :
          c \in BOOLEAN, size \in SegmentSizes, i \in 0..1}
       \cup {[RecognitionIdle EXCEPT !.phase = "called", !.credentials = c,
                                     !.segmentIndex = i] :
               c \in BOOLEAN, i \in 0..1}

\* the call up to its first await: without credentials it returns null
RecognitionStart ==
  /\ recognition.phase = "called"
  /\ recognition' = IF ~recognition.credentials
                    THEN [recognition EXCEPT !.phase = "returned", !.value = Null]
                    ELSE [recognition EXCEPT !.phase = "pathExists"]
  /\ UNCHANGED <<pipelineVars, planner, dedup, cache, download, reaper, cleanup>>

\* fs.pathExists resolved
PathExistsReturn ==
  /\ recognition.phase = "pathExists"
  /\ recognition' = IF ~recognition.exists
                    THEN [recognition EXCEPT !.phase = "returned", !.value = Null]
                    ELSE [recognition EXCEPT !.phase = "stat"]
  /\ UNCHANGED <<pipelineVars, planner, dedup, cache, download, reaper, cleanup>>

\* fs.stat resolved: a file of an accepted size is posted to the service
StatReturn ==
  /\ recognition.phase = "stat"
  /\ recognition' = IF sizeAccepted(recognition.size)
                    THEN [recognition EXCEPT !.phase = "post", !.posts = @ + 1]
                    ELSE [recognition EXCEPT !.phase = "returned", !.value = Null]
  /\ UNCHANGED <<pipelineVars, planner, dedup, cache, download, reaper, cleanup>>

\* fs.stat rejected: catch (fileError) returns null
StatFail ==
  /\ recognition.phase = "stat"
  /\ recognition' = [recognition EXCEPT !.phase = "returned", !.value = Null]
  /\ UNCHANGED <<pipelineVars, planner, dedup, cache, download, reaper, cleanup>>

\* axios.post settled in one of the ways a recognition request ends
PostReturn(outcome) ==
  /\ recognition.phase = "post"
  /\ recognition' = [recognition EXCEPT
                       !.phase = "returned",
                       !.value = identifyWithACRCloud(outcome, recognition.segmentIndex)]
  /\ UNCHANGED <<pipelineVars, planner, dedup, cache, download, reaper, cleanup>>

NextRecognition ==
  \/ RecognitionStart
  \/ PathExistsReturn
  \/ StatReturn
  \/ StatFail
  \/ \E outcome \in Outcomes : PostReturn(outcome)

SpecRecognition == InitRecognition /\ [][NextRecognition]_vars

(* ------------------- processVideo's artifacts, cleanupFiles -------------- *)
\* cleanupFiles(filePaths): forEach starts one async callback per path, each
\* suspended at its `await fs.pathExists`
cleanupFiles(t, filePaths) ==
  {[job |-> t, file |-> filePath, phase |-> "pathExists"] : filePath \in filePaths}

\* the artifacts of job t as processVideo would list them for cleanupFiles
HeldBy(t) == cleanup.job[t].files

\* POST /api/extract accepted: processVideo starts in segment mode
ArtifactSubmit(t, url) ==
  /\ cleanup.job[t].status = "none"
  /\ cleanup' = [cleanup EXCEPT !.job[t] =
                   [ArtifactJobIdle EXCEPT !.status = "processing", !.videoUrl = url]]
  /\ UNCHANGED <<pipelineVars, planner, dedup, cache, download, reaper, recognition>>

\* the segment download failed before it left a file: catch (segmentError)
ArtifactFallback(t) ==
  /\ cleanup.job[t].status = "processing"
  /\ cleanup.job[t].mode = "segments"
  /\ cleanup.job[t].files = {}
  /\ cleanup' = [cleanup EXCEPT !.job[t].mode = "full"]
  /\ UNCHANGED <<pipelineVars, planner, dedup, cache, download, reaper, recognition>>

\* downloadVideo resolved: the files are in the downloads directory and
\* processVideo holds their paths in segmentFiles or audioFile
ArtifactDownloaded(t) ==
  /\ cleanup.job[t].status = "processing"
  /\ cleanup.job[t].files = {}
  /\ LET url == cleanup.job[t].videoUrl
         written == IF cleanup.job[t].mode = "segments"
                    THEN windowFiles(url)
                    ELSE {fullAudioFile(t, url)}
     IN /\ cleanup' = [cleanup EXCEPT !.job[t].files = written]
        /\ reaper' = [reaper EXCEPT
                        !.files = [file \in written |->
                                     [mtime |-> reaper.now, atime |-> reaper.now]] @@ @]
  /\ UNCHANGED <<pipelineVars, planner, dedup, cache, download, recognition>>

\* the result is compiled: status completed, the cleanup timer is set
ArtifactCompleted(t) ==
  /\ cleanup.job[t].status = "processing"
  /\ cleanup.job[t].files # {}
  /\ cleanup' = [cleanup EXCEPT !.job[t].status = "completed",
                                !.job[t].timer = TRUE]
  /\ UNCHANGED <<pipelineVars, planner, dedup, cache, download, reaper, recognition>>

\* the full path threw (download, extraction or split): the catch block
\* sets status failed and calls cleanupFiles at once
ArtifactFailed(t) ==
  /\ cleanup.job[t].status = "processing"
  /\ cleanup.job[t].mode = "full"
  /\ cleanup' = [cleanup EXCEPT
                   !.job[t].status = "failed",
                   !.running = @ \cup cleanupFiles(t, HeldBy(t))]
  /\ UNCHANGED <<pipelineVars, planner, dedup, cache, download, reaper, recognition>>

\* the setTimeout of a completed job fires, an hour after completion
CleanupTimer(t) ==
  /\ cleanup.job[t].timer
  /\ cleanup' = [cleanup EXCEPT
                   !.job[t].timer = FALSE,
                   !.running = @ \cup cleanupFiles(t, HeldBy(t))]
  /\ UNCHANGED <<pipelineVars, planner, dedup, cache, download, reaper, recognition>>

\* fs.pathExists resolved in one callback of cleanupFiles
CleanupPathExists(c) ==
  /\ c \in cleanup.running
  /\ c.phase = "pathExists"
  /\ cleanup' = [cleanup EXCEPT
                   !.running = IF c.file \in DOMAIN reaper.files
                               THEN (@ \ {c}) \cup {[c EXCEPT !.phase = "remove"]}
                               ELSE @ \ {c}]
  /\ UNCHANGED <<pipelineVars, planner, dedup, cache, download, reaper, recognition>>

\* fs.remove resolved
CleanupRemoveOk(c) ==
  /\ c \in cleanup.running
  /\ c.phase = "remove"
  /\ cleanup' = [cleanup EXCEPT !.running = @ \ {c}]
  /\ reaper' = [reaper EXCEPT !.files = [k \in DOMAIN @ \ {c.file} |-> @[k]]]
  /\ UNCHANGED <<pipelineVars, planner, dedup, cache, download, recognition>>

\* fs.remove rejected: the callback's catch logs the error
CleanupRemoveFail(c) ==
  /\ c \in cleanup.running
  /\ c.phase = "remove"
  /\ cleanup' = [cleanup EXCEPT !.running = @ \ {c}]
  /\ UNCHANGED <<pipelineVars, planner, dedup, cache, download, reaper, recognition>>

\* jobs T on assets U, as far as their artifacts go
ArtifactJobs(T, U) ==
  \/ \E t \in T, url \in U : ArtifactSubmit(t, url)
  \/ \E t \in T : ArtifactFallback(t)
  \/ \E t \in T : ArtifactDownloaded(t)
  \/ \E t \in T : ArtifactCompleted(t)
  \/ \E t \in T : ArtifactFailed(t)
  \/ \E t \in T : CleanupTimer(t)
  \/ \E c \in cleanup.running : CleanupPathExists(c)
  \/ \E c \in cleanup.running : CleanupRemoveOk(c)
  \/ \E c \in cleanup.running : CleanupRemoveFail(c)

\* the process has started: the downloads directory is empty
InitArtifacts ==
  /\ InitPipeline
  /\ config = [credentials |-> TRUE, maxConcurrent |-> 1]
  /\ planner = PlannerIdle
  /\ dedup = DedupIdle
  /\ ServicesIdle

\* two jobs, on the same asset or on different ones
NextArtifacts == ArtifactJobs(TaskIds, Urls)

SpecArtifacts == InitArtifacts /\ [][NextArtifacts]_vars

\* one job on a direct media URL while time passes and the sweeps of
\* cleanupOldFiles run
NextCleanup ==
  \/ ArtifactJobs({"t1"}, {"https://cdn.example/a.mp4"})
  \/ \E instant \in ReaperInstants : ReaperTick(instant)
  \/ SweepStart
  \/ SweepStatOk
  \/ SweepStatFail
  \/ SweepRemoveOk
  \/ SweepRemoveFail

SpecCleanup == InitArtifacts /\ [][NextCleanup]_vars

(* ------------------------------ properties ----------------------------- *)
Terminal == {"completed", "failed"}
\* processVideo has left the segment download behind
PastSegments(t) == pc[t] \notin {"idle", "getVideoInfo", "segments"}
\* plan positions whose download succeeded
OkWindows(t) == {k \in 1..Len(segState[t]) : segState[t][k] = "ok"}
NonDecreasing(s) == \A k \in 1..(Len(s) - 1) : s[k] <= s[k + 1]
\* recognition calls in flight in the whole process
InFlightTotal == Cardinality(UNION {{<<t, k>> : k \in inflight[t]} : t \in TaskIds})

\* C1: the status of a job only moves forward: it is processing from its
\* creation on, and once it is completed or failed it never changes again,
\* whatever pipeline steps and HTTP polls follow.
C1_StatusForward ==
  [][\A t \in DOMAIN jobs :
       /\ t \in DOMAIN jobs'
       /\ jobs'[t].status \in {"processing"} \cup Terminal
       /\ jobs[t].status \in Terminal => jobs'[t].status = jobs[t].status]_vars

C1_Witness ==
  \E t \in DOMAIN jobs :
    /\ jobs[t].status = "completed"
    /\ response # Null
    /\ response.code = 200
    /\ "result" \in DOMAIN response

\* C2: in every state of every job, result is set iff the status is
\* completed, error is set iff the status is failed, and both are unset
\* while the job is processing.
C2_ResultXorError ==
  \A t \in DOMAIN jobs :
    /\ (jobs[t].result # Null) <=> (jobs[t].status = "completed")
    /\ (jobs[t].error # Null) <=> (jobs[t].status = "failed")
    /\ jobs[t].status = "processing" =>
         (jobs[t].result = Null /\ jobs[t].error = Null)

C2_Witness ==
  \E t \in DOMAIN jobs :
    /\ jobs[t].status = "failed"
    /\ jobs[t].error # Null
    /\ jobs[t].result = Null
    /\ useFullAudio[t]

\* C3: every value a step assigns to job.progress is at least the value it
\* replaces, over the whole life of the job.
C3_ProgressNonDecreasing ==
  [][\A t \in DOMAIN jobs :
       NonDecreasing(<<jobs[t].progress>> \o progressWrites'[t])]_vars

\* C4: a job invokes the segment download at most once and the full
\* download at most once; the full download is invoked exactly once when the
\* segment download yields no window, and the job never goes back to the
\* segment path afterwards.
C4_FallbackOnce ==
  \A t \in TaskIds :
    /\ calls[t].segments <= 1
    /\ calls[t].full <= 1
    /\ useFullAudio[t] => (calls[t].full = 1 /\ PastSegments(t))
    /\ (PastSegments(t) /\ OkWindows(t) = {}) =>
         (calls[t].full = 1 /\ calls[t].segments = 1)

C4_Witness ==
  \E t \in DOMAIN jobs :
    /\ jobs[t].status = "completed"
    /\ Len(plan[t]) = NUM_SEGMENTS
    /\ \A k \in 1..NUM_SEGMENTS : segState[t][k] = "failed"
    /\ calls[t] = [segments |-> 1, full |-> 1]

\* C5: a job is on the full path iff its segment download yielded no
\* window; every file handed to recognition comes from the path taken, and
\* the result of a completed job is tagged with that path.
C5_OnePathTagged ==
  \A t \in DOMAIN jobs :
    LET full == calls[t].full = 1
    IN /\ ~PastSegments(t) => ~full
       /\ PastSegments(t) => (full <=> OkWindows(t) = {})
       /\ \A k \in 1..Len(dispatched[t]) :
            dispatched[t][k].origin = (IF full THEN "split" ELSE "segment")
       /\ jobs[t].status = "completed" =>
            /\ jobs[t].result.audioMetadata.downloadMode =
                 (IF full THEN "full" ELSE "segments")
            /\ jobs[t].result.processingInfo.downloadMode =
                 (IF full THEN "full" ELSE "segments (10-20x faster!)")

C5_Witness ==
  \E t \in DOMAIN jobs :
    /\ jobs[t].status = "completed"
    /\ calls[t].full = 1
    /\ Len(dispatched[t]) >= 1
    /\ jobs[t].result.audioMetadata.downloadMode = "full"

\* C6: one run of identifyMusicTracks never has more recognition calls in
\* flight than the configured cap, for lists shorter and longer than the cap.
C6_CapPerRun ==
  \A t \in TaskIds : Cardinality(inflight[t]) <= config.maxConcurrent

C6_Witness ==
  \E t \in TaskIds :
    /\ pc[t] = "identify"
    /\ Len(segmentFiles[t]) > config.maxConcurrent
    /\ idx[t] > 0
    /\ Cardinality(inflight[t]) = config.maxConcurrent

C8_RecognitionFailureAbsorbed ==
  [][\A t \in DOMAIN jobs :
       /\ pc[t] \in {"identify", "batchDelay", "compile"} =>
            /\ jobs'[t].status # "failed"
            /\ pc'[t] = "done" => jobs'[t].status = "completed"
       /\ \A k \in inflight[t], o \in Outcomes :
            (o.kind # "match" /\ IdentifyReturn(t, k, o)) =>
               (batchResults'[t][k] = Null /\ jobs'[t].status = "processing")
       /\ (jobs'[t].status = "completed" /\ allResults'[t] = <<>>) =>
            /\ jobs'[t].result.identifiedTracks = <<>>
            /\ jobs'[t].result.processingInfo.tracksFound = 0]_vars

C8_Witness ==
  \E t \in DOMAIN jobs :
    /\ config.credentials
    /\ jobs[t].status = "completed"
    /\ Len(dispatched[t]) >= 2
    /\ jobs[t].result.processingInfo.tracksFound = 0
    /\ jobs[t].result.identifiedTracks = <<>>

\* C9: every planned window gets a download; once they have all finished
\* the fetcher returns exactly the windows that succeeded, in plan order,
\* whatever happened to their siblings, and it raises its error iff no
\* window succeeded.
C9_PartialFailureIsolated ==
  \A t \in TaskIds :
    LET ran == PastSegments(t) /\ Len(plan[t]) > 0
    IN /\ pc[t] = "segments" =>
            (Len(plan[t]) > 0 /\ Len(segState[t]) = Len(plan[t]))
       /\ ran => (useFullAudio[t] <=> OkWindows(t) = {})
       /\ (ran /\ ~useFullAudio[t]) =>
            /\ Len(segmentFiles[t]) = Cardinality(OkWindows(t))
            /\ \A m \in 1..Len(segmentFiles[t]) :
                 LET f == segmentFiles[t][m]
                 IN /\ f.origin = "segment"
                    /\ f.segmentIndex + 1 \in OkWindows(t)
                    /\ <<f.startTime, f.endTime>> = plan[t][f.segmentIndex + 1]
                    /\ \A n \in 1..(m - 1) :
                         segmentFiles[t][n].segmentIndex < f.segmentIndex

C9_Witness ==
  \E t \in TaskIds :
    /\ pc[t] = "identify"
    /\ Len(plan[t]) = NUM_SEGMENTS
    /\ segState[t][1] = "failed"
    /\ segState[t][2] = "ok"
    /\ Len(segmentFiles[t]) < Len(plan[t])

\* C10: while the segments are downloading, once k of the n planned windows
\* have finished, succeeded or failed, the last percentage the fetcher
\* reported is round(100 * k / n).
C10_FailuresCountAsDone ==
  \A t \in TaskIds :
    LET n == Len(plan[t])
        k == Cardinality({m \in 1..Len(segState[t]) : segState[t][m] # "pending"})
    IN (pc[t] = "segments" /\ k >= 1) =>
         /\ reported[t] # <<>>
         /\ reported[t][Len(reported[t])] = Round(100 * k, n)

\* the latest call of the planner was made with a positive duration
Planned == planner.last # Null /\ planner.last.duration > 0
\* a.end <= b.start or b.end <= a.start
Disjoint(a, b) == a[2] <= b[1] \/ b[2] <= a[1]

\* C11: for a duration D > 0, every window the planner returns has
\* 0 <= start < end <= D, and is at least 5 seconds long unless D <= W.
C11_WindowsWithinAsset ==
  Planned =>
    \A k \in 1..Len(planner.last.segments) :
      LET w == planner.last.segments[k]
      IN /\ 0 <= w[1]
         /\ w[1] < w[2]
         /\ w[2] <= planner.last.duration
         /\ planner.last.duration > planner.W => w[2] - w[1] >= 5

C11_Witness ==
  /\ Planned
  /\ planner.last.duration > planner.W
  /\ Len(planner.last.segments) = NUM_SEGMENTS
  /\ \E k \in 1..Len(planner.last.segments) :
       LET w == planner.last.segments[k]
       IN w[2] = planner.last.duration /\ w[2] - w[1] = 5

\* C12: for a duration D > 0 and N >= 1 the planner returns at most N
\* windows, and exactly the window [0, D] when D <= W.
C12_AtMostN ==
  Planned =>
    /\ Len(planner.last.segments) <= planner.N
    /\ planner.last.duration <= planner.W =>
         planner.last.segments = << <<0, planner.last.duration>> >>

C12_Witness ==
  /\ Planned
  /\ planner.W = 15
  /\ planner.N = 3
  /\ planner.last.duration = 24
  /\ Len(planner.last.segments) = 3

\* C13: any two distinct windows of one plan do not overlap.
C13_NonOverlapping ==
  Planned =>
    \A i, j \in 1..Len(planner.last.segments) :
      i # j => Disjoint(planner.last.segments[i], planner.last.segments[j])

\* the call of scenario A
ScenarioA ==
  /\ planner.W = 15
  /\ planner.N = 6
  /\ planner.last # Null
  /\ planner.last.duration = 600

\* C14 as stated: for duration 600, W = 15, N = 6 the plan has the four
\* consecutive windows of 0-60 s, a window at each of the fractions 0.25,
\* 0.50 and 0.85, and exactly 6 windows, all within [0, 600].
C14_ScenarioAllFractions ==
  ScenarioA =>
    /\ {<<0, 15>>, <<15, 30>>, <<30, 45>>, <<45, 60>>}
         \subseteq Range(planner.last.segments)
    /\ {<<143, 158>>, <<293, 308>>, <<503, 518>>}
         \subseteq Range(planner.last.segments)
    /\ Len(planner.last.segments) = 6
    /\ \A w \in Range(planner.last.segments) : 0 <= w[1] /\ w[2] <= 600

\* C14 as amended: the plan is the four consecutive windows of 0-60 s
\* followed by the windows at the fractions 0.25 and 0.50 only; the
\* fraction 0.85 is not sampled because the plan already has 6 windows.
C14_ScenarioTwoFractions ==
  ScenarioA =>
    planner.last.segments =
      << <<0, 15>>, <<15, 30>>, <<30, 45>>, <<45, 60>>,
         <<143, 158>>, <<293, 308>> >>

C14_Witness ==
  /\ ScenarioA
  /\ Len(planner.last.segments) = 6
  /\ <<293, 308>> \in Range(planner.last.segments)

C16_ZeroDurationRejected ==
  \A t \in TaskIds :
    \A k \in 1..Len(plan[t]) : plan[t][k][1] < plan[t][k][2]

\* the deduplication loop has returned
Deduplicated == dedup.phase \in {"returned", "again"}
\* equal (title, artist) pairs, ignoring case
SamePair(a, b) ==
  /\ toLowerCase(a.title) = toLowerCase(b.title)
  /\ toLowerCase(a.artist) = toLowerCase(b.artist)
\* positions of the input the deduplicator identifies with `track`
Occurrences(track) ==
  {k \in 1..Len(dedup.identifiedTracks) :
     trackKey(dedup.identifiedTracks[k]) = trackKey(track)}
SetMin(S) == CHOOSE x \in S : \A y \in S : x <= y
SetMax(S) == CHOOSE x \in S : \A y \in S : x >= y

\* C17: two outcomes are merged iff their (title, artist) pairs are equal
\* ignoring case: no two output entries have the same pair, and every
\* pair of the input has an output entry of its own.
C17_MergeIffSamePair ==
  Deduplicated =>
    /\ \A i, j \in 1..Len(dedup.returned) :
         i # j => ~SamePair(dedup.returned[i], dedup.returned[j])
    /\ \A k \in 1..Len(dedup.identifiedTracks) :
         \E m \in 1..Len(dedup.returned) :
           SamePair(dedup.identifiedTracks[k], dedup.returned[m])

\* C18: the deduplication applied to its own output returns the same
\* list: same entries, same order, same time ranges.
C18_Idempotent ==
  dedup.phase = "again" => dedup.again = dedup.returned

C18_Witness ==
  /\ dedup.phase = "again"
  /\ Len(dedup.identifiedTracks) = 3
  /\ Len(dedup.returned) = 2
  /\ dedup.returned[1].end > dedup.identifiedTracks[1].end
  /\ dedup.again = dedup.returned

FullPathPhases == {"fullDownload", "extractAudio", "split"}
\* the step takes job t out of FullPathPhases without an audio split at hand
FullPathAbandoned(t) ==
  /\ pc[t] \in FullPathPhases
  /\ pc'[t] \notin FullPathPhases \cup {"identify", "compile"}

\* C21: on the segment path, a recognised track carries the time range of
\* the planned window its file was fetched from (by plan index), whichever
\* sibling windows failed and in whatever order the fetches completed.
C21_TrackRangeIsPlannedWindow ==
  \A t \in DOMAIN jobs :
    ~useFullAudio[t] =>
      \A k \in DOMAIN batchResults[t] :
        batchResults[t][k] # Null =>
          /\ batchResults[t][k].start = segmentFiles[t][k].startTime
          /\ batchResults[t][k].end = segmentFiles[t][k].endTime

\* C23: when the metadata lookup (getVideoInfo) of a job fails, the job
\* fails at once: no window fetch and no full fetch is issued afterwards.
C23_GetInfoFailureFailsJob ==
  \A t \in DOMAIN jobs :
    (pc[t] \notin {"getVideoInfo", "segments"} /\ plan[t] = <<>>) =>
      /\ jobs[t].status = "failed"
      /\ calls[t].full = 0

\* C24: when the fetch, the extraction or the split of the full path fails
\* after the segment path is exhausted, the job becomes failed with result
\* unset and one error message, no download is invoked by that step, and a
\* failed job takes no further pipeline step and invokes no further path.
C24_FullPathFailureIsFinal ==
  [][\A t \in DOMAIN jobs :
       /\ FullPathAbandoned(t) =>
            /\ useFullAudio[t]
            /\ pc'[t] = "done"
            /\ jobs'[t].status = "failed"
            /\ jobs'[t].result = Null
            /\ jobs'[t].error \in [message : {"Failed to download video",
                                              "Audio extraction failed",
                                              "Failed to split audio"}]
            /\ calls'[t] = calls[t]
       /\ jobs[t].status = "failed" =>
            /\ jobs'[t] = jobs[t]
            /\ pc'[t] = pc[t]
            /\ calls'[t] = calls[t]
            /\ useFullAudio'[t] = useFullAudio[t]]_vars

C24_Witness ==
  \E t \in DOMAIN jobs :
    /\ jobs[t].status = "failed"
    /\ jobs[t].error = [message |-> "Failed to split audio"]
    /\ jobs[t].result = Null
    /\ calls[t] = [segments |-> 1, full |-> 1]
    /\ Len(plan[t]) = NUM_SEGMENTS
    /\ pc[t] = "done"

\* C25: once a job is failed, no step writes its progress or its
\* downloadProgress: neither a later stage nor a progress callback of a
\* download that was running when the failure was recorded.
C25_NoWriteAfterFailed ==
  [][\A t \in DOMAIN jobs :
       jobs[t].status = "failed" =>
         /\ jobs'[t].progress = jobs[t].progress
         /\ jobs'[t].downloadProgress = jobs[t].downloadProgress
         /\ progressWrites'[t] = <<>>]_vars

C25_Witness ==
  \E t \in DOMAIN jobs :
    /\ jobs[t].status = "failed"
    /\ jobs[t].downloadProgress = 40
    /\ ytLast[t] = 40
    /\ response # Null
    /\ response.code = 500

\* the audio of the full path has been split and the job has not failed
SplitDone(t) ==
  /\ useFullAudio[t]
  /\ pc[t] \in {"identify", "batchDelay", "compile", "done"}
  /\ jobs[t].status # "failed"

AcceptedFields == {"code", "taskId", "status"}

\* C26: a POST /api/extract that is answered 400 (videoUrl missing, not a
\* string, or not parsable as a URL) leaves the job store unchanged and
\* starts no pipeline and no download; an accepted one creates exactly one
\* job, in status processing with the submitted URL, and answers its taskId.
C26_ExtractValidates ==
  [][/\ (response' # Null /\ response'.code = 400) =>
          /\ jobs' = jobs
          /\ pc' = pc
          /\ calls' = calls
     /\ (response' # Null /\ DOMAIN response' = AcceptedFields) =>
          /\ response'.code = 200
          /\ response'.status = "processing"
          /\ response'.taskId \notin DOMAIN jobs
          /\ DOMAIN jobs' = DOMAIN jobs \cup {response'.taskId}
          /\ \A u \in DOMAIN jobs : jobs'[u] = jobs[u]
          /\ jobs'[response'.taskId].status = "processing"
          /\ jobs'[response'.taskId].taskId = response'.taskId
          /\ ~URLThrows(jobs'[response'.taskId].videoUrl)
     /\ DOMAIN jobs' # DOMAIN jobs =>
          (response' # Null /\ DOMAIN response' = AcceptedFields)]_vars

C26_Witness ==
  /\ response = [code |-> 400, error |-> "Invalid URL format"]
  /\ DOMAIN jobs = {"t1"}
  /\ jobs["t1"].status = "processing"
  /\ pc["t1"] = "segments"

\* C27: GET /api/status and GET /api/result answer 404 exactly for the ids
\* that are not in the job store; for a job in the store GET /api/result
\* answers 200 with the result iff it is completed, 500 with the error iff
\* it is failed and 200 with the progress while it is processing; no job
\* ever leaves the store, so an id POST /api/extract returned is never
\* answered 404.
C27_PollingAnswers ==
  [][/\ \A t \in TaskIds :
          /\ GetStatus(t) =>
               /\ (response'.code = 404) <=> (t \notin DOMAIN jobs)
               /\ t \in DOMAIN jobs =>
                    /\ response'.code = 200
                    /\ response'.status = jobs[t].status
                    /\ response'.progress = jobs[t].progress
                    /\ response'.downloadProgress = jobs[t].downloadProgress
          /\ GetResult(t) =>
               /\ (response'.code = 404) <=> (t \notin DOMAIN jobs)
               /\ t \in DOMAIN jobs =>
                    /\ (response'.code = 200 /\ "result" \in DOMAIN response')
                         <=> (jobs[t].status = "completed")
                    /\ (response'.code = 500) <=> (jobs[t].status = "failed")
                    /\ (response'.code = 200 /\ "progress" \in DOMAIN response')
                         <=> (jobs[t].status = "processing")
                    /\ jobs[t].status = "completed" =>
                         response'.result = jobs[t].result
                    /\ jobs[t].status = "failed" =>
                         response'.error = jobs[t].error
                    /\ jobs[t].status = "processing" =>
                         response'.progress = jobs[t].progress
     /\ DOMAIN jobs \subseteq DOMAIN jobs'
     /\ (response' # Null /\ DOMAIN response' = AcceptedFields) =>
          response'.taskId \in DOMAIN jobs']_vars

C27_Witness ==
  /\ response = [code |-> 404, error |-> "Task not found"]
  /\ "t1" \in DOMAIN jobs
  /\ jobs["t1"].status = "failed"

\* the path is a proper descendant of the downloads directory
InsideDownloads(path) ==
  /\ Len(path) > Len(resolve(DOWNLOAD_DIR))
  /\ SubSeq(path, 1, Len(resolve(DOWNLOAD_DIR))) = resolve(DOWNLOAD_DIR)

\* C28: GET /api/download never serves a file outside the downloads
\* directory: whatever name is requested, '..' components and names of
\* sibling directories that start with the root's name included, a 200
\* answer streams a file located inside the root.
C28_ServesOnlyInsideRoot ==
  download.code = 200 => InsideDownloads(download.served)

\* the urlCache entry of a URL, Null when it has none
CacheEntry(c, url) ==
  IF url \in DOMAIN c.urlCache THEN c.urlCache[url] ELSE Null

\* C29: a lookup for a URL is a hit iff urlCache holds an entry for it whose
\* age is below CACHE_DURATION, and a hit returns the cached data without
\* starting a resolution; an expired entry is removed by the lookup that
\* finds it and an entry is removed by nothing else; a lookup, a store or a
\* failed resolution for one URL leaves the entries of every other URL as
\* they are; a failed resolution stores nothing.
C29_CacheHitIffFresh ==
  [][/\ \A url \in CacheUrls :
          GetVideoInfoLookup(url) =>
            LET entry == CacheEntry(cache, url)
                fresh == entry # Null /\ cache.now - entry.timestamp < CACHE_DURATION
            IN /\ cache'.last.hit <=> fresh
               /\ fresh =>
                    /\ cache'.last.data = entry.data
                    /\ cache'.pending = cache.pending
                    /\ cache'.urlCache = cache.urlCache
               /\ ~fresh =>
                    /\ CacheEntry(cache', url) = Null
                    /\ url \in cache'.pending
     /\ \A url \in CacheUrls :
          (CacheEntry(cache, url) # Null /\ CacheEntry(cache', url) = Null) =>
            /\ cache'.last = [op |-> "lookup", url |-> url, hit |-> FALSE,
                              removed |-> TRUE, data |-> Null]
            /\ cache.now - cache.urlCache[url].timestamp >= CACHE_DURATION
     /\ \A url \in CacheUrls :
          CacheEntry(cache', url) # CacheEntry(cache, url) =>
            /\ cache'.last.op \in {"lookup", "store"}
            /\ cache'.last.url = url
     /\ \A url \in CacheUrls :
          GetVideoInfoRejected(url) => cache'.urlCache = cache.urlCache]_vars

C29_Witness ==
  /\ cache.last = [op |-> "lookup", url |-> "u1", hit |-> FALSE,
                   removed |-> TRUE, data |-> Null]
  /\ cache.now = CACHE_DURATION + 1
  /\ CacheEntry(cache, "u1") = Null
  /\ CacheEntry(cache, "u2") = [data |-> [duration |-> 20], timestamp |-> 1]
  /\ cache.pending = {"u1"}

\* C30: a sweep removes an artifact only if the age it measured for it,
\* the sweep's `now` minus the later of the file's mtime and atime, is
\* strictly greater than MAX_FILE_AGE * 1.5, and nothing else in the sweep
\* removes artifacts; an artifact whose measured age is at or below that
\* threshold is left in the directory by the sweep.
C30_SweepDeletesOnlyOld ==
  [][/\ \A file \in DOMAIN reaper.files :
          file \notin DOMAIN reaper'.files =>
            /\ reaper.sweep.phase = "remove"
            /\ reaper.sweep.file = file
            /\ file \in reaper'.sweep.removed
            /\ 2 * (reaper.sweep.now - reaper.sweep.stats.mtime) > 3 * MAX_FILE_AGE
            /\ 2 * (reaper.sweep.now - reaper.sweep.stats.atime) > 3 * MAX_FILE_AGE
     /\ (reaper.sweep.phase = "stat" /\ reaper.sweep.file \in DOMAIN reaper.files) =>
          LET stats == reaper.files[reaper.sweep.file]
              old == /\ 2 * (reaper.sweep.now - stats.mtime) > 3 * MAX_FILE_AGE
                     /\ 2 * (reaper.sweep.now - stats.atime) > 3 * MAX_FILE_AGE
          IN /\ reaper'.sweep.phase = "remove" =>
                  (old /\ reaper'.sweep.stats = stats
                       /\ reaper'.sweep.file = reaper.sweep.file)
             /\ (SweepStatOk /\ ~old) =>
                  /\ reaper.sweep.file \in reaper'.sweep.kept
                  /\ reaper'.files = reaper.files]_vars

C30_Witness ==
  /\ reaper.sweep.phase = "idle"
  /\ reaper.sweep.now = (MAX_FILE_AGE * 3) \div 2 + 1
  /\ reaper.sweep.removed = {"f"}
  /\ reaper.sweep.kept = {"g"}
  /\ DOMAIN reaper.files = {"g"}
  /\ reaper.files["g"] = [mtime |-> 1, atime |-> 0]

\* a step of job a's pipeline, as SpecJobs takes it
PipelineStepOf(a) ==
  Pipeline({a}, Urls, {10}, {2 * SEGMENT_DURATION},
           {[kind |-> "match", music |-> 1], [kind |-> "nomatch", music |-> 0]})

\* C32: a step of one job's pipeline leaves the record of every other job
\* (status, progress, downloadProgress, result, error) as it was, whatever
\* the interleaving of the two pipelines.
C32_JobIsolation ==
  [][\A a \in TaskIds :
       PipelineStepOf(a) =>
         \A b \in DOMAIN jobs \ {a} : b \in DOMAIN jobs' /\ jobs'[b] = jobs[b]]_vars

C32_Witness ==
  /\ DOMAIN jobs = TaskIds
  /\ jobs["t1"].status = "completed"
  /\ jobs["t1"].progress = 100
  /\ jobs["t2"].status = "processing"
  /\ jobs["t2"].progress < 100
  /\ pc["t2"] = "identify"

\* C35: the windows are submitted in consecutive batches of
\* min(cap, remaining) windows: a batch is submitted only when every call of
\* the batch before it has returned, it continues the list where that batch
\* ended, and when identification is over every window of the list has been
\* submitted exactly once, in list order.
C35_ConsecutiveBatches ==
  [][\A t \in TaskIds :
       /\ dispatched'[t] # dispatched[t] =>
            LET n == IF pc[t] \in {"identify", "batchDelay"}
                     THEN Len(dispatched[t]) ELSE 0
                size == Min(config.maxConcurrent, Len(segmentFiles'[t]) - n)
            IN /\ inflight[t] = {}
               /\ size >= 1
               /\ inflight'[t] = (n + 1)..(n + size)
               /\ dispatched'[t] = SubSeq(segmentFiles'[t], 1, n + size)
       /\ (pc'[t] = "compile" /\ config.credentials) =>
            dispatched'[t] = segmentFiles'[t]]_vars

C35_Witness ==
  \E t \in TaskIds :
    /\ pc[t] = "compile"
    /\ Len(segmentFiles[t]) > config.maxConcurrent
    /\ Len(segmentFiles[t]) % config.maxConcurrent # 0
    /\ dispatched[t] = segmentFiles[t]

\* C36: a completed job has progress 100, its result lists the
\* deduplicated tracks of the recognised windows, and tracksFound is the
\* length of that list.
C36_CompletedResult ==
  \A t \in DOMAIN jobs :
    jobs[t].status = "completed" =>
      /\ jobs[t].progress = 100
      /\ jobs[t].result.identifiedTracks =
           (IF config.credentials /\ Len(segmentFiles[t]) > 0
            THEN removeDuplicates(allResults[t]) ELSE <<>>)
      /\ \A k, m \in 1..Len(jobs[t].result.identifiedTracks) :
           trackKey(jobs[t].result.identifiedTracks[k])
             = trackKey(jobs[t].result.identifiedTracks[m]) => k = m
      /\ jobs[t].result.processingInfo.tracksFound
           = Len(jobs[t].result.identifiedTracks)

C36_Witness ==
  \E t \in DOMAIN jobs :
    /\ jobs[t].status = "completed"
    /\ Len(jobs[t].result.identifiedTracks) >= 1
    /\ Len(allResults[t]) > Len(jobs[t].result.identifiedTracks)

\* phases of processVideo in which downloadVideo is running
DownloadPhases == {"getVideoInfo", "segments", "fullDownload"}

\* C37: progress and downloadProgress of every job stay within 0..100, and
\* downloadProgress is written only while the download is running:
\* recognition, deduplication and result compilation leave it as it was.
C37_ProgressRanges ==
  [][\A t \in DOMAIN jobs' :
       /\ jobs'[t].progress >= 0 /\ jobs'[t].progress <= 100
       /\ jobs'[t].downloadProgress >= 0 /\ jobs'[t].downloadProgress <= 100
       /\ (t \in DOMAIN jobs /\ jobs'[t].downloadProgress # jobs[t].downloadProgress)
            => pc[t] \in DownloadPhases]_vars

C37_Witness ==
  \E t \in DOMAIN jobs :
    /\ jobs[t].status = "completed"
    /\ jobs[t].downloadProgress = 40
    /\ jobs[t].progress = 100
    /\ ytLast[t] = 40
    /\ Len(jobs[t].result.identifiedTracks) >= 1

\* C33: every submitted job ends completed or failed, provided every call
\* it awaits eventually returns or fails, on the segment path and on the
\* full path and whatever the number of windows.
C33_JobsTerminate ==
  \A t \in TaskIds :
    (t \in DOMAIN jobs) ~> (t \in DOMAIN jobs /\ jobs[t].status \in Terminal)

C33_Witness ==
  \E t \in DOMAIN jobs :
    /\ jobs[t].status = "completed"
    /\ useFullAudio[t]
    /\ Len(segmentFiles[t]) > config.maxConcurrent
    /\ Len(dispatched[t]) = Len(segmentFiles[t])

\* the segment file of the call is missing, empty, below the minimum size
\* or above the maximum size
PayloadRejected ==
  \/ ~recognition.exists
  \/ recognition.size = 0
  \/ recognition.size < minFileSize
  \/ recognition.size > maxFileSize

\* C34: a window whose payload is missing, empty, too small or too large
\* yields none without any request to the recognition service, and the call
\* resolves instead of throwing; a request is only ever made for a payload
\* that passed the four tests.
C34_InvalidPayloadIsNone ==
  /\ recognition.value # Thrown
  /\ recognition.posts > 0 => ~PayloadRejected
  /\ (recognition.phase = "returned" /\ PayloadRejected) =>
       /\ recognition.value = Null
       /\ recognition.posts = 0

C34_Witness ==
  /\ recognition.phase = "returned"
  /\ recognition.credentials
  /\ recognition.exists
  /\ recognition.size = minFileSize - 1
  /\ recognition.value = Null
  /\ recognition.posts = 0

\* the artifacts a sweep has still to look at, the one in hand included
SweepPending(sweep) ==
  sweep.todo \cup (IF sweep.phase = "idle" THEN {} ELSE {sweep.file})

\* C31: a failed fs.stat or fs.remove during a sweep of cleanupOldFiles, and
\* a failed fs.remove during a job's cleanupFiles, skip that artifact only:
\* the directory is left as it was, the other artifacts of the sweep (the
\* other callbacks of the cleanup) are still to be processed, the failed
\* artifact is not taken up again, and no job's status or error changes.
C31_ArtifactErrorsAbsorbed ==
  [][/\ (SweepStatFail \/ SweepRemoveFail) =>
          /\ reaper'.files = reaper.files
          /\ SweepPending(reaper'.sweep) = reaper.sweep.todo
          /\ reaper.sweep.file \notin SweepPending(reaper'.sweep)
          /\ reaper'.sweep.removed = reaper.sweep.removed
          /\ cleanup' = cleanup
          /\ jobs' = jobs
     /\ \A c \in cleanup.running :
          (c.phase = "remove" /\ CleanupRemoveFail(c)) =>
            /\ reaper'.files = reaper.files
            /\ cleanup'.running = cleanup.running \ {c}
            /\ \A d \in cleanup'.running : d.file # c.file \/ d.job # c.job
            /\ cleanup'.job = cleanup.job
            /\ jobs' = jobs]_vars

C31_Witness ==
  /\ reaper.sweep.phase = "idle"
  /\ reaper.sweep.removed = {"g"}
  /\ "f" \in DOMAIN reaper.files
  /\ "f" \notin reaper.sweep.kept
  /\ reaper.sweep.now - Max(reaper.files["f"].mtime, reaper.files["f"].atime)
       > safeDeleteAge
  /\ cleanup.job["t1"].status = "completed"
  /\ ~cleanup.job["t1"].timer
  /\ cleanup.running = {}
  /\ HeldBy("t1") = {"f", "g"}

\* C39 as stated: no artifact held by a job that is still processing is
\* removed from the downloads directory by the cleanup of another job.
C39_CleanupSparesOtherJobs ==
  [][\A b \in TaskIds :
       cleanup.job[b].status = "processing" =>
         \A file \in HeldBy(b) :
           file \in DOMAIN reaper.files => file \in DOMAIN reaper'.files]_vars

\* downloadAudioSegments has started the fetches of the plan's windows
WindowFetchIssued(t) == segState[t] # <<>>
\* downloadDirectFile is fetching the asset, or has fetched it
FullFetchIssued(t) ==
  /\ calls[t].full > 0
  /\ isDirectVideoFile(jobs[t].videoUrl)

\* C38 as stated: a job on an asset longer than MAX_DURATION issues no
\* window fetch and no full-asset fetch, and ends failed, whatever kind of
\* URL was submitted.
C38_TooLongRejectedBeforeFetch ==
  \A t \in DOMAIN jobs :
    /\ ~WindowFetchIssued(t)
    /\ ~FullFetchIssued(t)
    /\ pc[t] = "done" => jobs[t].status = "failed"

====
